---- MODULE Spec2Model ----
(***************************************************************************)
(* VitaBand: the sensor ingestion layer (app/sensor_manager.py with its    *)
(* sensor scripts and the app/sensor_test.py driver) and the monitoring     *)
(* loop (app/main.py).                                                      *)
(*                                                                          *)
(* Text is modelled as a sequence of characters, each a one-character       *)
(* string; the degree sign is written "deg".  A Python float is modelled    *)
(* by its canonical decimal text (sign, integer digits without leading      *)
(* zeros, ".", fraction digits without trailing zeros).  None is the        *)
(* one-element sequence <<"None">>.                                         *)
(***************************************************************************)
EXTENDS Integers, Sequences, FiniteSets, TLC

----------------------------------------------------------------------------
(* Bounds of the model *)

\* lines read from the sensor subprocesses in one run (all sources together)
MaxLines == 2
\* readings handed to the aggregator in the buffer-handler specification
MaxEnqueued == 2

\* cycles of the monitoring loop that are followed
MaxCycles == 2

----------------------------------------------------------------------------
(* Character-level helpers (Python str / re semantics) *)

Digits == {"0", "1", "2", "3", "4", "5", "6", "7", "8", "9"}

IsDigit(c) == c \in Digits

\* the characters str.strip() and the regex class \s remove
IsSpace(c) == c \in {" ", "\t", "\n", "\r"}

MinOf(S) == CHOOSE x \in S : \A y \in S : x <= y

\* first index >= i of s that holds no whitespace (Len(s)+1 if there is none)
SkipSpaces(s, i) ==
    MinOf({j \in i..(Len(s) + 1) : j = Len(s) + 1 \/ ~IsSpace(s[j])})

\* first index >= i of s that holds no digit (Len(s)+1 if there is none)
DigitsEnd(s, i) ==
    MinOf({j \in i..(Len(s) + 1) : j = Len(s) + 1 \/ ~IsDigit(s[j])})

\* str.strip()
Strip(s) ==
    LET a == SkipSpaces(s, 1)
        K == {j \in a..Len(s) : ~IsSpace(s[j])}
    IN  IF K = {} THEN <<>>
        ELSE SubSeq(s, a, CHOOSE j \in K : \A k \in K : k <= j)

\* s[i:].startswith(p)
StartsWithAt(s, p, i) ==
    /\ i >= 1
    /\ i + Len(p) - 1 <= Len(s)
    /\ \A k \in 1..Len(p) : s[i + k - 1] = p[k]

\* s.startswith(p)
StartsWith(s, p) == StartsWithAt(s, p, 1)

\* a membership test that every line passes
ContainsAlways(s, p) == TRUE

\* p in s
Contains(s, p) == \E i \in 1..(Len(s) + 1) : StartsWithAt(s, p, i)

\* The regex [+-]?\d+\.?\d* (signed) or [0-9]+\.?[0-9]* (unsigned) matched
\* greedily at index i of s: the index after the match, 0 when it does not match.
NumEnd(s, i, signed) ==
    LET a == IF signed /\ i <= Len(s) /\ s[i] \in {"+", "-"} THEN i + 1 ELSE i
        d == DigitsEnd(s, a)
    IN  IF i > Len(s) \/ d = a THEN 0
        ELSE IF d <= Len(s) /\ s[d] = "." THEN DigitsEnd(s, d + 1) ELSE d

\* re.search(number, s): the text of the leftmost match, <<>> when none
SearchNum(s, signed) ==
    LET I == {i \in 1..Len(s) : NumEnd(s, i, signed) # 0}
    IN  IF I = {} THEN <<>>
        ELSE LET i == MinOf(I) IN SubSeq(s, i, NumEnd(s, i, signed) - 1)

\* re.match(r"^\s*([+-]?\d+\.?\d*)\s*$", s): group 1, <<>> when no match
MatchBareNumber(s) ==
    LET a == SkipSpaces(s, 1)
        e == NumEnd(s, a, TRUE)
    IN  IF e # 0 /\ SkipSpaces(s, e) = Len(s) + 1 THEN SubSeq(s, a, e - 1)
        ELSE <<>>

\* re.search(rf"{axis}=\s*([+-]?\d+\.?\d*){suffix}", s): group 1, <<>> when none
SearchAxis(s, axis, suffix) ==
    LET NumAt(i) == SkipSpaces(s, i + 2)
        Ok(i) == /\ StartsWithAt(s, <<axis, "=">>, i)
                 /\ NumEnd(s, NumAt(i), TRUE) # 0
                 /\ StartsWithAt(s, suffix, NumEnd(s, NumAt(i), TRUE))
        I == {i \in 1..Len(s) : Ok(i)}
    IN  IF I = {} THEN <<>>
        ELSE LET i == MinOf(I)
             IN  SubSeq(s, NumAt(i), NumEnd(s, NumAt(i), TRUE) - 1)

----------------------------------------------------------------------------
(* Python values *)

None == <<"None">>

\* the outcome of float(value) raising ValueError or TypeError
ConvError == <<"Error">>

\* s without its leading zeros, one digit at least kept
StripLeadingZeros(s) ==
    LET K == {j \in 1..Len(s) : s[j] # "0"}
    IN  IF K = {} THEN <<"0">> ELSE SubSeq(s, MinOf(K), Len(s))

\* s without its trailing zeros, one digit at least kept
StripTrailingZeros(s) ==
    LET K == {j \in 1..Len(s) : s[j] # "0"}
    IN  IF K = {} THEN <<"0">>
        ELSE SubSeq(s, 1, CHOOSE j \in K : \A k \in K : k <= j)

\* float(value) for None and for decimal text without exponent: the float's
\* canonical decimal text, or ConvError when float() raises
FloatOf(value) ==
    IF value = None THEN ConvError
    ELSE
      LET s == Strip(value)
          neg == Len(s) >= 1 /\ s[1] = "-"
          a == IF Len(s) >= 1 /\ s[1] \in {"+", "-"} THEN 2 ELSE 1
          d == DigitsEnd(s, a)
          hasDot == d <= Len(s) /\ s[d] = "."
          e == IF hasDot THEN DigitsEnd(s, d + 1) ELSE d
          intPart == SubSeq(s, a, d - 1)
          fracPart == IF hasDot THEN SubSeq(s, d + 1, e - 1) ELSE <<>>
      IN  IF e # Len(s) + 1 \/ (intPart = <<>> /\ fracPart = <<>>) THEN ConvError
          ELSE (IF neg THEN <<"-">> ELSE <<>>)
               \o StripLeadingZeros(intPart) \o <<".">> \o StripTrailingZeros(fracPart)

IsFloat(v) == v # None /\ v # ConvError /\ FloatOf(v) = v

----------------------------------------------------------------------------
(* Output lines of the sensor scripts (src/sensors) *)

\* 36.6   [temp_ds18b20_sensor.py:120 print(f"{temp:.1f}")]
LineDsTempA ==
    <<"3", "6", ".", "6">>

\* -127.0   [temp_ds18b20_sensor.py:120, a large negative reading]
LineDsTempB ==
    <<"-", "1", "2", "7", ".", "0">>

\* DS18B20 CRC check failed after 10 retries   [temp_ds18b20_sensor.py:74 (stderr is merged into stdout)]
LineDsErr ==
    <<"D", "S", "1", "8", "B", "2", "0", " ", "C", "R", "C", " ", "c", "h", "e", "c", "k", " ", "f", "a", "i", "l", "e", "d", " ", "a", "f", "t", "e", "r", " ", "1", "0", " ", "r", "e", "t", "r", "i", "e", "s">>

\* Temperature: 25.00 (deg)C   [bme280_sensor.py:90]
LineBmeTemp ==
    <<"T", "e", "m", "p", "e", "r", "a", "t", "u", "r", "e", ":", " ", "2", "5", ".", "0", "0", " ", "deg", "C">>

\* Pressure: 1013.25 hPa   [bme280_sensor.py:91]
LineBmePress ==
    <<"P", "r", "e", "s", "s", "u", "r", "e", ":", " ", "1", "0", "1", "3", ".", "2", "5", " ", "h", "P", "a">>

\* Humidity: 45.50 %   [bme280_sensor.py:92]
LineBmeHum ==
    <<"H", "u", "m", "i", "d", "i", "t", "y", ":", " ", "4", "5", ".", "5", "0", " ", "%">>

\* BME280 failed 10 consecutive reads   [bme280_sensor.py:98 (stderr is merged into stdout)]
LineBmeErr ==
    <<"B", "M", "E", "2", "8", "0", " ", "f", "a", "i", "l", "e", "d", " ", "1", "0", " ", "c", "o", "n", "s", "e", "c", "u", "t", "i", "v", "e", " ", "r", "e", "a", "d", "s">>

\* Accel: X=  0.12g  Y= -0.50g  Z=  0.98g   [mpu6050_sensor.py:154]
LineMpuAccel ==
    <<"A", "c", "c", "e", "l", ":", " ", "X", "=", " ", " ", "0", ".", "1", "2", "g", " ", " ", "Y", "=", " ", "-", "0", ".", "5", "0", "g", " ", " ", "Z", "=", " ", " ", "0", ".", "9", "8", "g">>

\* Gyro:  X=  15.00(deg)/s  Y= -10.25(deg)/s  Z=   5.00(deg)/s   [mpu6050_sensor.py:155]
LineMpuGyro ==
    <<"G", "y", "r", "o", ":", " ", " ", "X", "=", " ", " ", "1", "5", ".", "0", "0", "deg", "/", "s", " ", " ", "Y", "=", " ", "-", "1", "0", ".", "2", "5", "deg", "/", "s", " ", " ", "Z", "=", " ", " ", " ", "5", ".", "0", "0", "deg", "/", "s">>

\* Accel: X=  0.30g  Y=   [mpu6050_sensor.py:154, a partial write]
LineMpuPartial ==
    <<"A", "c", "c", "e", "l", ":", " ", "X", "=", " ", " ", "0", ".", "3", "0", "g", " ", " ", "Y", "=">>

\* {"heart_rate": 72.5, "spo2": 98.1}   [max30102_sensor.py:14-17]
LineMaxOk ==
    <<"{", "\"", "h", "e", "a", "r", "t", "_", "r", "a", "t", "e", "\"", ":", " ", "7", "2", ".", "5", ",", " ", "\"", "s", "p", "o", "2", "\"", ":", " ", "9", "8", ".", "1", "}">>

\* {"heart_rate": null, "spo2": null}   [max30102_sensor.py:19-22]
LineMaxNull ==
    <<"{", "\"", "h", "e", "a", "r", "t", "_", "r", "a", "t", "e", "\"", ":", " ", "n", "u", "l", "l", ",", " ", "\"", "s", "p", "o", "2", "\"", ":", " ", "n", "u", "l", "l", "}">>

\* the default literals of read_all_sensors, digit for digit
DefaultTable ==
    [f \in {"body_temp", "ambient_temp", "pressure_hpa", "humidity_pct", "accel_x", "accel_y", "accel_z", "gyro_x", "gyro_y", "gyro_z", "heart_rate_bpm", "spo2_pct"} |->
        CASE f = "body_temp" -> <<"3", "8", ".", "1", "8", "5", "4", "3", "0", "5", "3", "4", "8", "1", "3", "1", "3">>
          [] f = "ambient_temp" -> <<"4", "0", ".", "6", "5", "3", "2", "8", "0", "2", "1", "9", "3", "7", "4", "6", "9">>
          [] f = "pressure_hpa" -> <<"1", "1", "1", "8", ".", "0", "7", "7", "9", "0", "4", "3", "4", "1", "7", "7", "0", "1">>
          [] f = "humidity_pct" -> <<"2", ".", "2", "2", "9", "0", "5", "0", "9", "6", "1", "2", "7", "0", "1", "1", "5", "1">>
          [] f = "accel_x" -> <<"-", "2", ".", "9", "3", "0", "4", "4", "7", "2", "1", "9", "7", "9", "5", "3", "3", "8", "9">>
          [] f = "accel_y" -> <<"1", ".", "5", "2", "6", "0", "9", "9", "4", "4", "8", "8", "9", "8", "5", "2">>
          [] f = "accel_z" -> <<"-", "3", ".", "4", "5", "7", "6", "7", "6", "1", "3", "9", "6", "1", "9", "2", "2">>
          [] f = "gyro_x" -> <<"-", "1", "9", "2", ".", "4", "9", "1", "2", "5", "7", "5", "6", "8", "5", "5", "3", "9", "2">>
          [] f = "gyro_y" -> <<"2", "2", "8", ".", "9", "5", "3", "0", "6", "1", "6", "6", "7", "2", "0", "1", "9", "5">>
          [] f = "gyro_z" -> <<"1", "0", "4", ".", "3", "1", "4", "2", "2", "9", "4", "5", "0", "6", "9", "1", "7", "6">>
          [] f = "heart_rate_bpm" -> <<"1", "0", "0", ".", "8", "5", "7", "6", "1", "9", "8", "5", "3", "7", "3", "3", "2", "7">>
          [] f = "spo2_pct" -> <<"5", "0", ".", "4", "7", "2", "1", "4", "1", "7", "3", "3", "0", "7", "4", "3">>]

----------------------------------------------------------------------------
(* SensorManager: constants *)

\* SensorManager.SCRIPTS, in order
SCRIPTS == <<"max30102", "ds18b20", "bme280", "mpu6050">>

Sensors == {SCRIPTS[i] : i \in 1..Len(SCRIPTS)}

\* SensorManager.feature_cols
feature_cols ==
    <<"body_temp", "ambient_temp", "pressure_hpa", "humidity_pct",
      "accel_x", "accel_y", "accel_z",
      "gyro_x", "gyro_y", "gyro_z",
      "heart_rate_bpm", "spo2_pct">>

FeatureSet == {feature_cols[i] : i \in 1..Len(feature_cols)}

\* ActivityMonitor.feature_names
feature_names ==
    <<"body_temp", "ambient_temp", "pressure_hpa", "humidity_pct",
      "accel_x", "accel_y", "accel_z",
      "gyro_x", "gyro_y", "gyro_z",
      "heart_rate_bpm", "spo2_pct">>

\* defaults.get(feature, 0.0) in read_all_sensors
DefaultOf(feature) ==
    IF feature \in DOMAIN DefaultTable THEN DefaultTable[feature] ELSE <<"0", ".", "0">>

\* an empty line, a line of blanks, the start of a line cut short, and a line
\* in a format no rule knows ("Lux: 120")
LineEmpty == <<>>

LineBlank == <<" ", " ">>

LineCutShort == <<"T", "e", "m", "p", "e", "r", "a">>

LineUnknown == <<"L", "u", "x", ":", " ", "1", "2", "0">>

\* lines each sensor script can print (stdout, and stderr merged into it)
ScriptLines(sensor) ==
    CASE sensor = "ds18b20" -> {LineDsTempA, LineDsTempB, LineDsErr}
      [] sensor = "bme280" -> {LineBmeTemp, LineBmePress, LineBmeHum, LineBmeErr}
      [] sensor = "mpu6050" -> {LineMpuAccel, LineMpuGyro, LineMpuPartial}
      [] sensor = "max30102" -> {LineMaxOk, LineMaxNull}

\* the lines of each script that the reader threads receive in the run
LinesOf(sensor) ==
    CASE sensor = "ds18b20" -> {LineDsTempA}
      [] sensor = "bme280" -> {LineBmeHum}
      [] sensor = "mpu6050" -> {LineMpuAccel}
      [] sensor = "max30102" -> {LineMaxOk}

\* the metrics each source is there to provide (the rule comments of _parse_line)
MetricsOf(sensor) ==
    CASE sensor = "ds18b20" -> {"body_temp"}
      [] sensor = "bme280" -> {"ambient_temp", "pressure_hpa", "humidity_pct"}
      [] sensor = "mpu6050" -> {"accel_x", "accel_y", "accel_z", "gyro_x", "gyro_y", "gyro_z"}
      [] sensor = "max30102" -> {"heart_rate_bpm", "spo2_pct"}

----------------------------------------------------------------------------
(* SensorManager._parse_line *)

\* _parse_line(sensor, line): the list of (metric, value text) pairs.
ParseLine(sensor, raw) ==
    LET line == Strip(raw)
        Axis(kind, suffix) ==
            LET One(axis, metric) ==
                    IF SearchAxis(line, axis, suffix) # <<>>
                    THEN << <<metric, SearchAxis(line, axis, suffix)>> >>
                    ELSE <<>>
            IN  IF kind = "accel"
                THEN One("X", "accel_x") \o One("Y", "accel_y") \o One("Z", "accel_z")
                ELSE One("X", "gyro_x") \o One("Y", "gyro_y") \o One("Z", "gyro_z")
    IN  IF sensor = "ds18b20" /\ MatchBareNumber(line) # <<>>
          THEN << <<"body_temp", MatchBareNumber(line)>> >>
        ELSE IF /\ Contains(line, <<"T", "e", "m", "p", "e", "r", "a", "t", "u", "r", "e", ":">>)
                /\ Contains(line, <<"deg", "C">>)
                /\ SearchNum(line, TRUE) # <<>>
          THEN << <<"ambient_temp", SearchNum(line, TRUE)>> >>
        ELSE IF /\ StartsWith(line, <<"P", "r", "e", "s", "s", "u", "r", "e", ":">>)
                /\ SearchNum(line, TRUE) # <<>>
          THEN << <<"pressure_hpa", SearchNum(line, TRUE)>> >>
        ELSE IF /\ Contains(line, <<"H", "u", "m", "i", "d", "i", "t", "y", ":">>)
                /\ SearchNum(line, TRUE) # <<>>
          THEN << <<"humidity_pct", SearchNum(line, TRUE)>> >>
        ELSE IF StartsWith(line, <<"A", "c", "c", "e", "l", ":">>)
          THEN Axis("accel", <<"g">>)
        ELSE IF StartsWith(line, <<"G", "y", "r", "o", ":">>)
          THEN Axis("gyro", <<"deg", "/", "s">>)
        ELSE IF /\ Contains(line, <<"H", "e", "a", "r", "t", " ", "R", "a", "t", "e">>)
                /\ SearchNum(line, FALSE) # <<>>
          THEN << <<"heart_rate_bpm", SearchNum(line, FALSE)>> >>
        ELSE IF /\ Contains(line, <<"S", "p", "O", "2">>)
                /\ SearchNum(line, FALSE) # <<>>
          THEN << <<"spo2_pct", SearchNum(line, FALSE)>> >>
        ELSE <<>>

\* every line handed to _parse_line in the calls below
AllLines ==
    UNION {ScriptLines(sensor) : sensor \in Sensors}
        \cup {LineEmpty, LineBlank, LineCutShort, LineUnknown}

\* lines that satisfy the condition of no rule of _parse_line for the sensor:
\* empty or blank, error text, cut short, unknown format, the JSON records,
\* and a bare number from a sensor other than ds18b20
NoRuleLines(sensor) ==
    {LineEmpty, LineBlank, LineCutShort, LineUnknown, LineDsErr, LineBmeErr,
     LineMaxOk, LineMaxNull}
        \cup (IF sensor = "ds18b20" THEN {} ELSE {LineDsTempA, LineDsTempB})

----------------------------------------------------------------------------
(* SensorManager: state *)

VARIABLES
    stop_event,     \* threading.Event: set or not
    data_queue,     \* queue.Queue: the readings put and not yet got, oldest first
    sensor_buffer,  \* metric -> float or None
    buffer_lock,    \* who holds threading.Lock: "free", "updater" or "main"
    procs,          \* sensor -> its process: "running", "terminating" (terminate()
                    \* was called, the process has not exited yet), "exited"; in the
                    \* constructor also "unselected", "selected", "missing", "popen_raises"
    rpc,            \* sensor -> position of its reader thread
    pending,        \* sensor -> parsed pairs of the current line not yet put
    linesRead,      \* lines read so far by all reader threads
    upc,            \* position of the buffer updater thread
    udata,          \* the reading the updater holds
    mpc,            \* position of the main thread (sensor_test.py main)
    mi,             \* loop index of the running read_all_sensors / get_sensor_status
    sensor_data,    \* read_all_sensors: the dict under construction, in insertion order
    data,           \* sensor_test.py: the last snapshot returned
    status_acc,     \* get_sensor_status: the dict under construction
    status,         \* sensor_test.py: the last status map returned
    ci,             \* close(): index of the process being shut down
    produced,       \* history: the sensors whose reader has put a reading on the queue
    lastNumeric,    \* history: metric -> float of the last numeric reading applied, or None
    real_acc,       \* history: features read as real readings in the running snapshot
    data_real,      \* history: features that were real readings in the snapshot `data`
    enqueued        \* readings handed to the aggregator by the handler specification

smVars ==
    <<stop_event, data_queue, sensor_buffer, buffer_lock, procs, rpc, pending,
      linesRead, upc, udata, mpc, mi, sensor_data, data, status_acc, status,
      ci, produced, lastNumeric, real_acc, data_real, enqueued>>

\* main.py: the state of main() and of its ActivityMonitor
VARIABLES
    apc,            \* position of main(): in __init__, in monitor_continuous, exited
    exit_code,      \* "running", or how the process ended
    json_data,      \* ActivityMonitor.json_data
    json_index,     \* ActivityMonitor.json_index
    scaler,         \* ActivityMonitor.scaler: "unset" or "loaded"
    model,          \* ActivityMonitor.model: "unset" or "loaded"
    mqtt_publisher, \* "None" or "connected"
    mdns_service,   \* "None" or "started"
    log_f,          \* f of monitor_continuous, the log file: "unopened", "open" or "closed"
    log_header,     \* header rows of the log file
    log_rows,       \* rows of the log file after the header
    m_sensor_data,  \* sensor_data of the running cycle
    result,         \* result of the running cycle
    cycle,          \* number of the running cycle (0 before the loop)
    displayed,      \* cycles for which display_result was called
    published,      \* cycles for which publish_health_update was called
    stages,         \* history: what the running cycle has done, in order
    aborted,        \* history: cycles ended by a read or predict failure
    emit_failed,    \* history: cycles in which display, publish or log raised
    interrupted,    \* history: KeyboardInterrupt was raised
    init_error,     \* history: the step of __init__ that raised, or "none"
    sink_failed,    \* history: the sink operations that failed (MQTT, mDNS, log file)
    warned          \* history: the failures for which a warning or error was printed

\* a call of one of the program's functions on its own
VARIABLES
    call,           \* the function called and its arguments
    ret             \* what the call returned

fnVars == <<call, ret>>

\* the dict objects of a SensorManager and of its callers
VARIABLES
    heap,           \* the dict objects created so far, by identity (1 is sensor_buffer)
    snaps,          \* the references read_all_sensors / get_sensor_status returned
    snap_op         \* history: the last operation and the reference it acted on

snapVars == <<heap, snaps, snap_op>>

\* a HealthMQTTPublisher, the network thread of its client and one caller
VARIABLES
    connected,      \* self.connected
    last_callback,  \* history: the last callback of the client and what it did
    ppc,            \* where publish_health_update stands: "idle" when not running
    pub_result,     \* the result of the running or last publish_health_update
    attempts,       \* history: the _publish calls of that update, in order
    pub_ret         \* what the last publish_health_update returned or raised

pubVars == <<connected, last_callback, ppc, pub_result, attempts, pub_ret>>

\* a sensor script (bme280_sensor.py or temp_ds18b20_sensor.py) run as a process
VARIABLES
    script,             \* which script runs: "none" before it is started
    spc,                \* "unstarted", "loop" (at the start of an iteration), "exited"
    consecutive_errors, \* the counter of main()
    iterations,         \* history: the iterations of the loop so far
    stdout_lines,       \* history: how many lines the process has printed on stdout
    last_iteration,     \* history: what the last iteration read, printed and did
    script_exit         \* "running", the exit code, or "returned" after Ctrl+C

loopVars ==
    <<script, spc, consecutive_errors, iterations, stdout_lines, last_iteration,
      script_exit>>

\* the state of the parts that are modelled on their own
partVars == <<snapVars, pubVars, loopVars>>

amVars ==
    <<apc, exit_code, json_data, json_index, scaler, model, mqtt_publisher,
      mdns_service, log_f, log_header, log_rows, m_sensor_data, result, cycle, displayed,
      published, stages, aborted, emit_failed, interrupted, init_error,
      sink_failed, warned>>

NoReading == [sensor |-> "", metric |-> "", value |-> None]

\* SensorManager.__init__ with every script started, as sensor_test.py enters its loop
InitSM ==
    /\ stop_event = FALSE
    /\ data_queue = <<>>
    /\ sensor_buffer = [f \in FeatureSet |-> None]
    /\ buffer_lock = "free"
    /\ procs = [s \in Sensors |-> "running"]
    /\ rpc = [s \in Sensors |-> "read"]
    /\ pending = [s \in Sensors |-> <<>>]
    /\ linesRead = 0
    /\ upc = "check"
    /\ udata = NoReading
    /\ mpc = "loop"
    /\ mi = 1
    /\ sensor_data = <<>>
    /\ data = <<>>
    /\ status_acc = <<>>
    /\ status = <<>>
    /\ ci = 1
    /\ produced = {}
    /\ lastNumeric = [f \in FeatureSet |-> None]
    /\ real_acc = {}
    /\ data_real = {}
    /\ enqueued = 0

\* a with block that is entered without waiting
AcquirableAlways(lock) == TRUE

\* `with self.buffer_lock:` can be entered
Acquirable(lock) == lock = "free"

----------------------------------------------------------------------------
(* SensorManager._reader_thread *)

\* `for raw_line in proc.stdout`: one line arrives; break when the stop event is
\* set, else parse it
ReadLine(s) ==
    /\ rpc[s] = "read"
    /\ procs[s] \in {"running", "terminating"}
    /\ linesRead < MaxLines
    /\ \E line \in LinesOf(s) :
         LET parsed == ParseLine(s, line)
         IN  IF stop_event
             THEN /\ rpc' = [rpc EXCEPT ![s] = "done"]
                  /\ UNCHANGED pending
             ELSE /\ pending' = [pending EXCEPT ![s] = parsed]
                  /\ rpc' = [rpc EXCEPT ![s] = IF parsed = <<>> THEN "read" ELSE "put"]
    /\ linesRead' = linesRead + 1
    /\ UNCHANGED <<stop_event, data_queue, sensor_buffer, buffer_lock, procs, upc,
                   udata, mpc, mi, sensor_data, data, status_acc, status, ci, produced, lastNumeric, real_acc, data_real, enqueued>>
    /\ UNCHANGED amVars
    /\ UNCHANGED fnVars
    /\ UNCHANGED partVars

\* self.data_queue.put({...}) for the next parsed pair of the line
PutReading(s) ==
    /\ rpc[s] = "put"
    /\ data_queue' = Append(data_queue,
                            [sensor |-> s, metric |-> Head(pending[s])[1],
                             value |-> Head(pending[s])[2]])
    /\ pending' = [pending EXCEPT ![s] = Tail(pending[s])]
    /\ rpc' = [rpc EXCEPT ![s] = IF Tail(pending[s]) = <<>> THEN "read" ELSE "put"]
    /\ produced' = produced \cup {s}
    /\ UNCHANGED <<stop_event, sensor_buffer, buffer_lock, procs, linesRead, upc,
                   udata, mpc, mi, sensor_data, data, status_acc, status, ci, lastNumeric, real_acc, data_real, enqueued>>
    /\ UNCHANGED amVars
    /\ UNCHANGED fnVars
    /\ UNCHANGED partVars

\* proc.stdout reaches end of file: the for loop ends
ReaderEOF(s) ==
    /\ rpc[s] = "read"
    /\ procs[s] = "exited"
    /\ rpc' = [rpc EXCEPT ![s] = "done"]
    /\ UNCHANGED <<stop_event, data_queue, sensor_buffer, buffer_lock, procs, pending,
                   linesRead, upc, udata, mpc, mi, sensor_data, data, status_acc,
                   status, ci, produced, lastNumeric, real_acc, data_real,
                   enqueued>>
    /\ UNCHANGED amVars
    /\ UNCHANGED fnVars
    /\ UNCHANGED partVars

----------------------------------------------------------------------------
(* SensorManager._buffer_updater_thread *)

\* a buffer that keeps the first numeric reading of a metric
StoreReadingFirst(buffer, metric, value) ==
    IF FloatOf(value) # ConvError /\ buffer[metric] = None
    THEN [buffer EXCEPT ![metric] = FloatOf(value)]
    ELSE buffer

\* self.sensor_buffer[metric] = float(value), or pass on ValueError / TypeError
StoreReading(buffer, metric, value) ==
    IF FloatOf(value) # ConvError
    THEN [buffer EXCEPT ![metric] = FloatOf(value)]
    ELSE buffer

\* while not self.stop_event.is_set()
UCheckStop ==
    /\ upc = "check"
    /\ upc' = IF stop_event THEN "done" ELSE "get"
    /\ UNCHANGED <<stop_event, data_queue, sensor_buffer, buffer_lock, procs, rpc,
                   pending, linesRead, udata, mpc, mi, sensor_data, data, status_acc,
                   status, ci, produced, lastNumeric, real_acc, data_real,
                   enqueued>>
    /\ UNCHANGED amVars
    /\ UNCHANGED fnVars
    /\ UNCHANGED partVars

\* a get() without timeout: it returns only when an item is there
GetReturnsWithItemOnly(q) == q # <<>>

\* data_queue.get(timeout=0.5) comes back, with an item or with queue.Empty
\* after half a second, whatever the queue holds
GetReturns(q) == TRUE

\* a queue that hands out the item put last
DequeueLast(q) == [item |-> q[Len(q)], rest |-> SubSeq(q, 1, Len(q) - 1)]

\* queue.Queue is first in, first out: get() hands out the oldest item
Dequeue(q) == [item |-> Head(q), rest |-> Tail(q)]

\* data = self.data_queue.get(timeout=0.5); `if metric in self.feature_cols`;
\* queue.Empty after the timeout -> continue
UGet ==
    /\ upc = "get"
    /\ GetReturns(data_queue)
    /\ IF data_queue # <<>>
       THEN /\ udata' = IF Dequeue(data_queue).item.metric \in FeatureSet
                        THEN Dequeue(data_queue).item ELSE NoReading
            /\ data_queue' = Dequeue(data_queue).rest
            /\ upc' = IF Dequeue(data_queue).item.metric \in FeatureSet
                      THEN "lock" ELSE "check"
       ELSE /\ upc' = "check"
            /\ UNCHANGED <<udata, data_queue>>
    /\ UNCHANGED <<stop_event, sensor_buffer, buffer_lock, procs, rpc, pending,
                   linesRead, mpc, mi, sensor_data, data, status_acc, status,
                   ci, produced, lastNumeric, real_acc, data_real, enqueued>>
    /\ UNCHANGED amVars
    /\ UNCHANGED fnVars
    /\ UNCHANGED partVars

\* with self.buffer_lock: (entry)
UAcquire ==
    /\ upc = "lock"
    /\ Acquirable(buffer_lock)
    /\ buffer_lock' = "updater"
    /\ upc' = "write"
    /\ UNCHANGED <<stop_event, data_queue, sensor_buffer, procs, rpc, pending,
                   linesRead, udata, mpc, mi, sensor_data, data, status_acc, status,
                   ci, produced, lastNumeric, real_acc, data_real, enqueued>>
    /\ UNCHANGED amVars
    /\ UNCHANGED fnVars
    /\ UNCHANGED partVars

\* the body of the with block and its exit
UWrite ==
    /\ upc = "write"
    /\ sensor_buffer' = StoreReading(sensor_buffer, udata.metric, udata.value)
    /\ lastNumeric' = IF FloatOf(udata.value) # ConvError
                      THEN [lastNumeric EXCEPT ![udata.metric] = FloatOf(udata.value)]
                      ELSE lastNumeric
    /\ buffer_lock' = "free"
    /\ upc' = "check"
    /\ udata' = NoReading
    /\ UNCHANGED <<stop_event, data_queue, procs, rpc, pending, linesRead, mpc,
                   mi, sensor_data, data, status_acc, status, ci, produced,
                   real_acc, data_real, enqueued>>
    /\ UNCHANGED amVars
    /\ UNCHANGED fnVars
    /\ UNCHANGED partVars

----------------------------------------------------------------------------
(* SensorManager.read_all_sensors / get_sensor_status, called as sensor_test.py does *)

\* a snapshot that hands out the stored value as it is
ReadValueNoDefault(buffer, feature) == buffer[feature]

\* value = self.sensor_buffer.get(feature), replaced by the default when None
ReadValue(buffer, feature) ==
    IF buffer[feature] = None THEN DefaultOf(feature) ELSE buffer[feature]

\* a status that marks every metric available
StatusValueAlways(buffer, feature) == TRUE

\* status[feature] = self.sensor_buffer.get(feature) is not None
StatusValue(buffer, feature) == buffer[feature] # None

\* data = manager.read_all_sensors(): entry of the with block
MCallRead ==
    /\ mpc = "loop"
    /\ Acquirable(buffer_lock)
    /\ buffer_lock' = "main"
    /\ mpc' = "snap"
    /\ mi' = 1
    /\ sensor_data' = <<>>
    /\ real_acc' = {}
    /\ UNCHANGED <<stop_event, data_queue, sensor_buffer, procs, rpc, pending,
                   linesRead, upc, udata, data, status_acc, status, ci,
                   produced, lastNumeric, data_real, enqueued>>
    /\ UNCHANGED amVars
    /\ UNCHANGED fnVars
    /\ UNCHANGED partVars

\* one iteration of `for feature in self.feature_cols`
MReadFeature ==
    /\ mpc = "snap"
    /\ mi <= Len(feature_cols)
    /\ LET f == feature_cols[mi]
       IN  /\ sensor_data' = Append(sensor_data, <<f, ReadValue(sensor_buffer, f)>>)
           /\ real_acc' = IF sensor_buffer[f] # None THEN real_acc \cup {f} ELSE real_acc
    /\ mi' = mi + 1
    /\ UNCHANGED <<stop_event, data_queue, sensor_buffer, buffer_lock, procs, rpc,
                   pending, linesRead, upc, udata, mpc, data, status_acc, status, ci,
                   produced, lastNumeric, data_real, enqueued>>
    /\ UNCHANGED amVars
    /\ UNCHANGED fnVars
    /\ UNCHANGED partVars

\* `return sensor_data`: the with block is left, sensor_test.py binds data
MReturnRead ==
    /\ mpc = "snap"
    /\ mi > Len(feature_cols)
    /\ data' = sensor_data
    /\ data_real' = real_acc
    /\ sensor_data' = <<>>
    /\ real_acc' = {}
    /\ mi' = 1
    /\ buffer_lock' = "free"
    /\ mpc' = "between"
    /\ UNCHANGED <<stop_event, data_queue, sensor_buffer, procs, rpc, pending,
                   linesRead, upc, udata, status_acc, status, ci, produced,
                   lastNumeric, enqueued>>
    /\ UNCHANGED amVars
    /\ UNCHANGED fnVars
    /\ UNCHANGED partVars

\* status = manager.get_sensor_status(): entry of the with block
MCallStatus ==
    /\ mpc = "between"
    /\ Acquirable(buffer_lock)
    /\ buffer_lock' = "main"
    /\ mpc' = "stat"
    /\ mi' = 1
    /\ status_acc' = <<>>
    /\ UNCHANGED <<stop_event, data_queue, sensor_buffer, procs, rpc, pending,
                   linesRead, upc, udata, sensor_data, data, status, ci,
                   produced, lastNumeric, real_acc, data_real, enqueued>>
    /\ UNCHANGED amVars
    /\ UNCHANGED fnVars
    /\ UNCHANGED partVars

\* one iteration of `for feature in self.feature_cols` of get_sensor_status
MStatusFeature ==
    /\ mpc = "stat"
    /\ mi <= Len(feature_cols)
    /\ LET f == feature_cols[mi]
       IN  status_acc' = Append(status_acc, <<f, StatusValue(sensor_buffer, f)>>)
    /\ mi' = mi + 1
    /\ UNCHANGED <<stop_event, data_queue, sensor_buffer, buffer_lock, procs, rpc,
                   pending, linesRead, upc, udata, mpc, sensor_data, data, status, ci,
                   produced, lastNumeric, real_acc, data_real, enqueued>>
    /\ UNCHANGED amVars
    /\ UNCHANGED fnVars
    /\ UNCHANGED partVars

\* `return status`: the with block is left, sensor_test.py binds status
MReturnStatus ==
    /\ mpc = "stat"
    /\ mi > Len(feature_cols)
    /\ status' = status_acc
    /\ status_acc' = <<>>
    /\ mi' = 1
    /\ buffer_lock' = "free"
    /\ mpc' = "report"
    /\ UNCHANGED <<stop_event, data_queue, sensor_buffer, procs, rpc, pending,
                   linesRead, upc, udata, sensor_data, data, ci, produced,
                   lastNumeric, real_acc, data_real, enqueued>>
    /\ UNCHANGED amVars
    /\ UNCHANGED fnVars
    /\ UNCHANGED partVars

\* the rest of the iteration: the record is appended, the values are printed,
\* time.sleep(2); the next iteration rebinds data and status
MSleep ==
    /\ mpc = "report"
    /\ mpc' = "loop"
    /\ data' = <<>>
    /\ status' = <<>>
    /\ data_real' = {}
    /\ UNCHANGED <<stop_event, data_queue, sensor_buffer, buffer_lock, procs, rpc,
                   pending, linesRead, upc, udata, mi, sensor_data, status_acc, ci,
                   produced, lastNumeric, real_acc, enqueued>>
    /\ UNCHANGED amVars
    /\ UNCHANGED fnVars
    /\ UNCHANGED partVars

\* KeyboardInterrupt in the loop of sensor_test.py: a with block that is open is
\* left (the lock is released), the frame's locals are gone, finally: manager.close()
MInterrupt ==
    /\ mpc \in {"loop", "snap", "between", "stat", "report"}
    /\ buffer_lock' = IF buffer_lock = "main" THEN "free" ELSE buffer_lock
    /\ mpc' = "closing"
    /\ mi' = 1
    /\ sensor_data' = <<>>
    /\ status_acc' = <<>>
    /\ real_acc' = {}
    /\ data' = <<>>
    /\ status' = <<>>
    /\ data_real' = {}
    /\ UNCHANGED <<stop_event, data_queue, sensor_buffer, procs, rpc, pending,
                   linesRead, upc, udata, ci, produced, lastNumeric, enqueued>>
    /\ UNCHANGED amVars
    /\ UNCHANGED fnVars
    /\ UNCHANGED partVars

----------------------------------------------------------------------------
(* SensorManager.close *)

\* self.stop_event.set()
MCloseStop ==
    /\ mpc = "closing"
    /\ stop_event' = TRUE
    /\ mpc' = "close_procs"
    /\ ci' = 1
    /\ UNCHANGED <<data_queue, sensor_buffer, buffer_lock, procs, rpc, pending,
                   linesRead, upc, udata, mi, sensor_data, data, status_acc, status,
                   produced, lastNumeric, real_acc, data_real, enqueued>>
    /\ UNCHANGED amVars
    /\ UNCHANGED fnVars
    /\ UNCHANGED partVars

\* a process that has not exited, and one that has
Alive == {"running", "terminating"}

Dead == {"exited"}

\* self.processes: the sensors whose Popen returned
Launched == {s \in Sensors : procs[s] \in Alive \cup Dead}

\* the least member of a non-empty set of positions
First(positions) == CHOOSE j \in positions : \A k \in positions : j <= k

\* positions of self.processes the loop of close() has still to visit, from i on
CloseLeft(i) == {j \in i..Len(SCRIPTS) : SCRIPTS[j] \in Launched}

\* close() after the pass for the process at position i: the next pass, or the
\* joins when that was the last process
MCloseAdvance(i) ==
    /\ ci' = IF CloseLeft(i + 1) = {} THEN 1 ELSE First(CloseLeft(i + 1))
    /\ mpc' = IF CloseLeft(i + 1) = {} THEN "join" ELSE "close_procs"

\* a close() that goes on to the next process when the wait times out
AfterWaitNoKill(inTime) == "next"

\* proc.wait(timeout=2.0) returns in time, or raises TimeoutExpired and the
\* except branch is entered
AfterWait(inTime) == IF inTime THEN "next" ELSE "close_kill"

\* `if proc.poll() is None: proc.terminate()` for the next process of
\* self.processes; a process that has exited already is passed over
MCloseTerminate ==
    /\ mpc = "close_procs"
    /\ CloseLeft(ci) # {}
    /\ LET i == First(CloseLeft(ci))
       IN  IF procs[SCRIPTS[i]] = "running"
           THEN /\ procs' = [procs EXCEPT ![SCRIPTS[i]] = "terminating"]
                /\ ci' = i
                /\ mpc' = "close_wait"
           ELSE /\ MCloseAdvance(i)
                /\ UNCHANGED procs
    /\ UNCHANGED <<stop_event, data_queue, sensor_buffer, buffer_lock, rpc, pending,
                   linesRead, upc, udata, mi, sensor_data, data, status_acc, status,
                   produced, lastNumeric, real_acc, data_real, enqueued>>
    /\ UNCHANGED amVars
    /\ UNCHANGED fnVars
    /\ UNCHANGED partVars

\* proc.wait(timeout=2.0): the process exits within the wait, or it does not
MCloseWait ==
    /\ mpc = "close_wait"
    /\ \E inTime \in BOOLEAN :
          IF AfterWait(inTime) = "close_kill"
          THEN /\ mpc' = "close_kill"
               /\ UNCHANGED <<procs, ci>>
          ELSE /\ procs' = [procs EXCEPT ![SCRIPTS[ci]] =
                               IF inTime THEN "exited" ELSE @]
               /\ MCloseAdvance(ci)
    /\ UNCHANGED <<stop_event, data_queue, sensor_buffer, buffer_lock, rpc, pending,
                   linesRead, upc, udata, mi, sensor_data, data, status_acc, status,
                   produced, lastNumeric, real_acc, data_real, enqueued>>
    /\ UNCHANGED amVars
    /\ UNCHANGED fnVars
    /\ UNCHANGED partVars

\* except Exception: proc.kill()
MCloseKill ==
    /\ mpc = "close_kill"
    /\ procs' = [procs EXCEPT ![SCRIPTS[ci]] = "exited"]
    /\ MCloseAdvance(ci)
    /\ UNCHANGED <<stop_event, data_queue, sensor_buffer, buffer_lock, rpc, pending,
                   linesRead, upc, udata, mi, sensor_data, data, status_acc, status,
                   produced, lastNumeric, real_acc, data_real, enqueued>>
    /\ UNCHANGED amVars
    /\ UNCHANGED fnVars
    /\ UNCHANGED partVars

\* `for t in self.threads: t.join(timeout=1.0)`: returns whether or not they ended
MCloseJoin ==
    /\ mpc = "join"
    /\ mpc' = "closed"
    /\ UNCHANGED <<stop_event, data_queue, sensor_buffer, buffer_lock, procs, rpc,
                   pending, linesRead, upc, udata, mi, sensor_data, data, status_acc,
                   status, ci, produced, lastNumeric, real_acc, data_real,
                   enqueued>>
    /\ UNCHANGED amVars
    /\ UNCHANGED fnVars
    /\ UNCHANGED partVars

----------------------------------------------------------------------------
(* The aggregator as a handler of arbitrary queue items *)

\* metric names and values a queue item may carry: features, a name that is no
\* feature, numeric text of any magnitude, text that is no number, None
AnyMetrics == {"body_temp", "spo2_pct", "battery_pct"}

AnyValues ==
    { <<"3", "6", ".", "6">>,
      <<"-", "9", "0", "0", "0", "0", ".", "2", "5">>,
      <<"n", "/", "a">>,
      None }

\* an item is put on data_queue
EnqueueAny ==
    /\ enqueued < MaxEnqueued
    /\ \E m \in AnyMetrics, v \in AnyValues :
         data_queue' = Append(data_queue, [sensor |-> "any", metric |-> m, value |-> v])
    /\ enqueued' = enqueued + 1
    /\ UNCHANGED <<stop_event, sensor_buffer, buffer_lock, procs, rpc, pending,
                   linesRead, upc, udata, mpc, mi, sensor_data, data, status_acc,
                   status, ci, produced, lastNumeric, real_acc, data_real>>
    /\ UNCHANGED amVars
    /\ UNCHANGED fnVars
    /\ UNCHANGED partVars

\* two readings of one metric from one source, and a reading whose metric is
\* no feature
FewReadings ==
    { [sensor |-> "any", metric |-> "body_temp", value |-> <<"3", "6", ".", "6">>],
      [sensor |-> "any", metric |-> "body_temp",
       value |-> <<"-", "9", "0", "0", "0", "0", ".", "2", "5">>],
      [sensor |-> "any", metric |-> "battery_pct", value |-> <<"3", "6", ".", "6">>] }

\* one of these is put on data_queue
EnqueueFew ==
    /\ enqueued < MaxEnqueued
    /\ \E item \in FewReadings : data_queue' = Append(data_queue, item)
    /\ enqueued' = enqueued + 1
    /\ UNCHANGED <<stop_event, sensor_buffer, buffer_lock, procs, rpc, pending,
                   linesRead, upc, udata, mpc, mi, sensor_data, data, status_acc,
                   status, ci, produced, lastNumeric, real_acc, data_real>>
    /\ UNCHANGED amVars
    /\ UNCHANGED fnVars
    /\ UNCHANGED partVars

----------------------------------------------------------------------------
(* recommendation_engine.py: the tables and the classification of interpret() *)

ACTIVITY_DESCRIPTIONS ==
    {"Resting", "Light activity", "Moderate activity", "High activity", "Sleeping",
     "Walking", "Running", "Sedentary"}

HEALTH_STATUS_DESCRIPTIONS ==
    {"Normal", "Healthy", "Slight abnormality", "Warning", "Critical"}

ENVIRONMENTAL_DESCRIPTIONS ==
    {"Hot environment", "Cold environment", "Humid environment",
     "Low-pressure environment"}

HEALTH_CONDITION_DESCRIPTIONS ==
    {"Stressed", "Fatigued", "Dehydrated", "Possible fever", "Low oxygen state",
     "Overexertion", "Early illness indication"}

\* self.priority.get(l, 0)
LABEL_PRIORITY(l) ==
    CASE l = "Critical" -> 100
      [] l = "Low oxygen state" -> 90
      [] l = "Possible fever" -> 85
      [] l = "Overexertion" -> 80
      [] l = "Dehydrated" -> 75
      [] l = "Fatigued" -> 70
      [] l = "Stressed" -> 65
      [] l = "Running" -> 40
      [] l = "High activity" -> 38
      [] l = "Moderate activity" -> 35
      [] l = "Walking" -> 30
      [] l = "Light activity" -> 25
      [] l = "Resting" -> 20
      [] l = "Sedentary" -> 15
      [] l = "Sleeping" -> 10
      [] l = "Hot environment" -> 12
      [] l = "Cold environment" -> 11
      [] l = "Humid environment" -> 10
      [] l = "Low-pressure environment" -> 9
      [] OTHER -> 0

\* [x for x in seq if Keep(x)], order kept
RECURSIVE SelectSeq2(_, _)
SelectSeq2(seq, S) ==
    IF seq = <<>> THEN <<>>
    ELSE (IF Head(seq) \in S THEN <<Head(seq)>> ELSE <<>>) \o SelectSeq2(Tail(seq), S)

SeqRange(seq) == {seq[i] : i \in 1..Len(seq)}

\* a choice of the last label of highest priority
select_top_labelLast(labels) ==
    IF labels = <<>> THEN "None"
    ELSE labels[CHOOSE i \in 1..Len(labels) :
                    /\ \A j \in 1..Len(labels) :
                          LABEL_PRIORITY(labels[j]) <= LABEL_PRIORITY(labels[i])
                    /\ \A j \in (i+1)..Len(labels) :
                          LABEL_PRIORITY(labels[j]) < LABEL_PRIORITY(labels[i])]

\* _select_top_label: max(labels, key=priority): the first label of highest priority
select_top_label(labels) ==
    IF labels = <<>> THEN "None"
    ELSE labels[MinOf({i \in 1..Len(labels) :
                        \A j \in 1..Len(labels) :
                            LABEL_PRIORITY(labels[j]) <= LABEL_PRIORITY(labels[i])})]

\* a classification that keeps the labels of the four tables only
classify_labelsKnownOnly(labels) ==
    [activity |-> SelectSeq2(labels, ACTIVITY_DESCRIPTIONS),
     conditions |-> SelectSeq2(labels, HEALTH_CONDITION_DESCRIPTIONS),
     environment |-> SelectSeq2(labels, ENVIRONMENTAL_DESCRIPTIONS),
     status |-> SelectSeq2(labels, HEALTH_STATUS_DESCRIPTIONS)]

\* _classify_labels
classify_labels(labels) ==
    LET known == ACTIVITY_DESCRIPTIONS \cup HEALTH_CONDITION_DESCRIPTIONS
                 \cup ENVIRONMENTAL_DESCRIPTIONS \cup HEALTH_STATUS_DESCRIPTIONS
    IN  [activity |-> SelectSeq2(labels, ACTIVITY_DESCRIPTIONS),
         conditions |-> SelectSeq2(labels, (SeqRange(labels) \ known)
                                            \cup HEALTH_CONDITION_DESCRIPTIONS),
         environment |-> SelectSeq2(labels, ENVIRONMENTAL_DESCRIPTIONS),
         status |-> SelectSeq2(labels, HEALTH_STATUS_DESCRIPTIONS)]

\* a priority level that tests the urgent labels before Critical
priority_levelUrgentFirst(labels) ==
    IF SeqRange(labels) \cap {"Low oxygen state", "Possible fever", "Warning"} # {}
      THEN "warning"
    ELSE IF "Critical" \in SeqRange(labels)
      THEN "critical"
    ELSE IF SeqRange(labels) \cap HEALTH_CONDITION_DESCRIPTIONS # {}
      THEN "caution"
    ELSE "normal"

\* a priority level read off the main label alone
priority_levelByMainLabel(labels) ==
    IF select_top_label(labels) = "Critical"
      THEN "critical"
    ELSE IF select_top_label(labels) \in {"Low oxygen state", "Possible fever", "Warning"}
      THEN "warning"
    ELSE IF select_top_label(labels) \in HEALTH_CONDITION_DESCRIPTIONS
      THEN "caution"
    ELSE "normal"

\* the priority level string of interpret()
priority_level(labels) ==
    IF select_top_label(labels) = "Critical" \/ "Critical" \in SeqRange(labels)
      THEN "critical"
    ELSE IF SeqRange(labels) \cap {"Low oxygen state", "Possible fever", "Warning"} # {}
      THEN "warning"
    ELSE IF SeqRange(labels) \cap HEALTH_CONDITION_DESCRIPTIONS # {}
      THEN "caution"
    ELSE "normal"

\* the parts of the summary of interpret(), as (class, labels) records in the order
\* they are appended; no part means "<intro> everything looks normal."
summary_parts(labels) ==
    LET c == classify_labels(labels)
        main == select_top_label(labels)
        other == SelectSeq2(c.conditions, SeqRange(c.conditions) \ {main})
        non_normal == SelectSeq2(c.status, SeqRange(c.status) \ {"Normal", "Healthy"})
        Part(kind, ls) == IF ls = <<>> THEN <<>> ELSE <<[kind |-> kind, labels |-> ls]>>
    IN  Part("main", IF main \in HEALTH_CONDITION_DESCRIPTIONS THEN <<main>> ELSE <<>>)
        \o Part("conditions", other)
        \o Part("activity", c.activity)
        \o Part("environment", c.environment)
        \o Part("status", non_normal)

----------------------------------------------------------------------------
(* recommendation_engine.py: the texts of interpret() *)

\* A text of the engine is written as a tuple that names it: <<"condition", l, i>>
\* is CONDITION_INTENSITY_MESSAGES[l][i] (i = "base": the description of l),
\* <<"activity", l>>, <<"environment", l>> the description of l, <<"status", l>>
\* the lowered name of l, <<"action", l>> RECOMMENDATION_ACTIONS[l]. The texts of
\* the tables are pairwise different, as these tuples are. NoText is "".
NoText == <<>>

\* the keys of RECOMMENDATION_ACTIONS
RECOMMENDATION_ACTIONS ==
    {"Critical", "Low oxygen state", "Possible fever", "Dehydrated", "Overexertion",
     "Stressed", "Fatigued", "Hot environment", "Cold environment",
     "Humid environment", "Low-pressure environment", "Running", "Walking",
     "Sedentary", "Resting", "Light activity", "Moderate activity", "High activity"}

\* the keys of CONDITION_INTENSITY_MESSAGES; each has the entries mild, moderate, high
CONDITION_INTENSITY_MESSAGES ==
    {"Stressed", "Fatigued", "Dehydrated", "Possible fever", "Low oxygen state",
     "Overexertion", "Early illness indication"}

INTRO_PHRASES ==
    {"From your readings,", "Based on the sensors,", "From what the data shows,"}

\* "Keep monitoring your readings and stay hydrated. Take rest if you feel unwell."
FallbackAction == <<"action", "">>

\* An optional dict argument is written [none |-> it is None, items |-> the
\* dict as a function]. Get is (d or {}).get(k): "None" when k is no key
Get(d, k) == IF ~d.none /\ k \in DOMAIN d.items THEN d.items[k] ELSE "None"

\* a message that is the same for every intensity
cond_messageFlat(label, intensity) ==
    IF label \in CONDITION_INTENSITY_MESSAGES THEN <<"condition", label, "moderate">>
    ELSE IF label \in HEALTH_CONDITION_DESCRIPTIONS THEN <<"condition", label, "base">>
    ELSE NoText

\* _cond_message(label, intensity)
cond_message(label, intensity) ==
    IF label \in CONDITION_INTENSITY_MESSAGES
    THEN IF intensity \in {"mild", "moderate", "high"}
         THEN <<"condition", label, intensity>>
         ELSE <<"condition", label, "moderate">>
    ELSE IF label \in HEALTH_CONDITION_DESCRIPTIONS THEN <<"condition", label, "base">>
    ELSE NoText

\* list(dict.fromkeys(items)): each item at its first occurrence
RECURSIVE Dedupe(_)
Dedupe(items) ==
    IF items = <<>> THEN <<>>
    ELSE LET front == Dedupe(SubSeq(items, 1, Len(items) - 1))
             last == items[Len(items)]
         IN  IF last \in SeqRange(front) THEN front ELSE Append(front, last)

\* _format_list(items): the items left after the dedupe, which the code joins
\* with commas and the connector; the result is "" for no item and for the
\* single item ""
format_list(items) ==
    IF Dedupe(items) = <<NoText>> THEN <<>> ELSE Dedupe(items)

\* an action list that keeps every action, repeated or not
RECURSIVE AddActionsAll(_, _)
AddActionsAll(rec, labels) ==
    IF labels = <<>> THEN rec
    ELSE AddActionsAll(IF Head(labels) \in RECOMMENDATION_ACTIONS
                       THEN Append(rec, <<"action", Head(labels)>>) ELSE rec,
                       Tail(labels))

\* for cond in ...: action = self.actions.get(cond); appended when there is one
\* and it is not in rec_actions yet
RECURSIVE AddActions(_, _)
AddActions(rec, labels) ==
    IF labels = <<>> THEN rec
    ELSE AddActions(IF /\ Head(labels) \in RECOMMENDATION_ACTIONS
                       /\ <<"action", Head(labels)>> \notin SeqRange(rec)
                    THEN Append(rec, <<"action", Head(labels)>>) ELSE rec,
                    Tail(labels))

\* a formatter that prints whatever it is given
safe_formatAny(value, decimals) ==
    IF FloatOf(value) = ConvError THEN <<"text", value>>
    ELSE <<"number", FloatOf(value), decimals>>

\* _safe_format(value, decimals): the float of value printed with that many
\* decimals, "N/A" when float(value) raises
safe_format(value, decimals) ==
    IF FloatOf(value) = ConvError THEN <<"N/A">>
    ELSE <<"number", FloatOf(value), decimals>>

\* sensor_lines of interpret(), detailed mode: a line per reading that could be
\* formatted; the ambient line needs both of its readings
sensor_lines(sensors) ==
    IF sensors.none \/ DOMAIN sensors.items = {} THEN <<>>
    ELSE LET Value(k) == IF k \in DOMAIN sensors.items THEN sensors.items[k] ELSE None
             bt == safe_format(Value("body_temp"), 1)
             hr == safe_format(Value("heart_rate_bpm"), 0)
             sp == safe_format(Value("spo2_pct"), 1)
             at == safe_format(Value("ambient_temp"), 1)
             hu == safe_format(Value("humidity_pct"), 1)
         IN  (IF bt # <<"N/A">> THEN << <<"Body temp:", bt>> >> ELSE <<>>)
             \o (IF hr # <<"N/A">> THEN << <<"Heart rate:", hr>> >> ELSE <<>>)
             \o (IF sp # <<"N/A">> THEN << <<"SpO2:", sp>> >> ELSE <<>>)
             \o (IF at # <<"N/A">> /\ hu # <<"N/A">> THEN << <<"Ambient:", at, hu>> >> ELSE <<>>)

\* a summary whose text depends on the phrase drawn
SummaryByIntro(intro, parts) ==
    [intro |-> intro,
     text |-> IF parts # <<>> /\ intro # "Based on the sensors," THEN parts
              ELSE << [part |-> "everything looks normal.", text |-> <<>>] >>]

\* summary = f"{intro} {summary_text}", or f"{intro} everything looks normal."
\* when there is no part
Summary(intro, parts) ==
    [intro |-> intro,
     text |-> IF parts # <<>> THEN parts
              ELSE << [part |-> "everything looks normal.", text |-> <<>>] >>]

\* a recommendation text that holds every action in both modes
RecommendationAll(mode, rec_actions) == rec_actions

\* recommendation: rec_actions[0] in mode "short", " ".join(rec_actions) otherwise
Recommendation(mode, rec_actions) ==
    IF mode = "short" THEN <<rec_actions[1]>> ELSE rec_actions

\* rec_actions of interpret(): the action of the main label, then those of the
\* other conditions, the activities and the environments, each text once; the
\* fallback text when there is none
RecActions(labels) ==
    LET c == classify_labels(labels)
        main_label == select_top_label(labels)
        other_conditions == SelectSeq2(c.conditions, SeqRange(c.conditions) \ {main_label})
        first == IF main_label # "None" /\ main_label \in RECOMMENDATION_ACTIONS
                 THEN << <<"action", main_label>> >> ELSE <<>>
        specific == AddActions(first, other_conditions \o c.activity \o c.environment)
    IN  IF specific = <<>> THEN <<FallbackAction>> ELSE specific

\* interpret(predicted_labels, sensor_data, intensity_map, mode) when
\* random.choice gives intro; the lists it computes on the way are returned too.
\* full_message: the summary, then in detailed mode "What this means:" with
\* every action, the sensor lines and "Suggested next step:" with the first
\* action; in short mode the first action only
Interpretation(labels, sensors, intensity_map, mode, intro) ==
    LET imap == intensity_map
        c == classify_labels(labels)
        main_label == select_top_label(labels)
        other_conditions == SelectSeq2(c.conditions, SeqRange(c.conditions) \ {main_label})
        brief == format_list([i \in 1..Len(other_conditions) |->
                                cond_message(other_conditions[i],
                                             Get(imap, other_conditions[i]))])
        env_text == format_list([i \in 1..Len(c.environment) |->
                                   <<"environment", c.environment[i]>>])
        non_normal == SelectSeq2(c.status, SeqRange(c.status) \ {"Normal", "Healthy"})
        parts ==
            (IF main_label # "None" /\ main_label \in HEALTH_CONDITION_DESCRIPTIONS
             THEN << [part |-> "main",
                      text |-> <<cond_message(main_label, Get(imap, main_label))>>] >>
             ELSE <<>>)
            \o (IF brief # <<>> THEN << [part |-> "conditions", text |-> brief] >> ELSE <<>>)
            \o (IF c.activity # <<>>
                THEN << [part |-> "activity", text |-> << <<"activity", c.activity[1]>> >>] >>
                ELSE <<>>)
            \o (IF env_text # <<>>
                THEN << [part |-> "environment", text |-> env_text] >> ELSE <<>>)
            \o (IF non_normal # <<>>
                THEN << [part |-> "status",
                         text |-> format_list([i \in 1..Len(non_normal) |->
                                                 <<"status", non_normal[i]>>])] >>
                ELSE <<>>)
        summary == Summary(intro, parts)
        rec_actions == RecActions(labels)
    IN  [activity |-> c.activity, conditions |-> c.conditions,
         environment |-> c.environment, status |-> c.status,
         main_label |-> main_label,
         priority |-> priority_level(labels),
         parts |-> parts,
         summary |-> summary,
         rec_actions |-> rec_actions,
         recommendation |-> Recommendation(mode, rec_actions),
         full_message |->
             IF mode = "short"
             THEN [summary |-> summary, means |-> Recommendation(mode, rec_actions),
                   sensor_block |-> <<>>, next_step |-> <<>>]
             ELSE [summary |-> summary, means |-> Recommendation(mode, rec_actions),
                   sensor_block |-> sensor_lines(sensors),
                   next_step |-> <<rec_actions[1]>>]]

\* interpret(active_labels, sensor_data), mode "detailed", as predict() calls it:
\* priority, summary and the recommendation text (every action)
interpret(labels) ==
    [priority |-> priority_level(labels),
     summary |-> IF summary_parts(labels) = <<>>
                 THEN <<"everything looks normal.">>
                 ELSE summary_parts(labels),
     recommendation |-> Recommendation("detailed", RecActions(labels))]

----------------------------------------------------------------------------
(* main.py: ActivityMonitor.predict *)

\* ActivityMonitor.label_names
label_names ==
    <<"Resting", "Light activity", "Moderate activity", "High activity", "Sleeping",
      "Walking", "Running", "Sedentary", "Normal", "Stressed", "Fatigued",
      "Dehydrated", "Possible fever", "Low oxygen state", "Overexertion",
      "Early illness indication", "Hot environment", "Cold environment",
      "Humid environment", "Low-pressure environment", "Healthy",
      "Slight abnormality", "Warning", "Critical">>

\* np.zeros(n, dtype=int)
Zeros(n) == [i \in 1..n |-> 0]

\* Model outputs.  A numeric entry is written in tenths (5 is 0.5, 10 is 1, 20 is 2);
\* numeric = FALSE is an array whose astype(float) raises.  The output is given
\* flattened, as raw_pred[0] / raw_pred / raw_pred.ravel() leave it.
OutAllZero == [numeric |-> TRUE, values |-> Zeros(24)]

OutCritical == [numeric |-> TRUE, values |-> [i \in 1..24 |-> IF i = 24 THEN 10 ELSE 0]]

OutWarningWalking ==
    [numeric |-> TRUE, values |-> [i \in 1..24 |-> IF i \in {6, 14, 17} THEN 10 ELSE 0]]

OutShortProbs == [numeric |-> TRUE, values |-> <<2, 8, 5>>]

OutNoUnitValue == [numeric |-> TRUE, values |-> <<20, 30>>]

OutText == [numeric |-> FALSE, values |-> <<>>]

ModelOutputs ==
    {OutAllZero, OutCritical, OutWarningWalking, OutShortProbs, OutNoUnitValue, OutText}

\* raw_pred as model.predict returns it: an ndarray of ndim 1 (rows holds the
\* one vector) or more (rows holds its rows), or a plain Python number
\* (isarray = FALSE, rows holds it alone)
RawRow2D(values) == [isarray |-> TRUE, ndim |-> 2, rows |-> <<values>>, numeric |-> TRUE]

RawVec1D(values) == [isarray |-> TRUE, ndim |-> 1, rows |-> <<values>>, numeric |-> TRUE]

RawMatrix(rows) == [isarray |-> TRUE, ndim |-> 2, rows |-> rows, numeric |-> TRUE]

RawNumber(v) == [isarray |-> FALSE, ndim |-> 0, rows |-> <<<<v>>>>, numeric |-> TRUE]

RawText == [isarray |-> TRUE, ndim |-> 1, rows |-> <<<<>>>>, numeric |-> FALSE]

\* vectors shorter by 2 and longer by 3 than the 24 labels, with entries at their
\* ends
ValuesShortBy2 == [i \in 1..22 |-> IF i \in {1, 22} THEN 9 ELSE 1]

ValuesLongBy3 == [i \in 1..27 |-> IF i \in {2, 24, 25, 27} THEN 10 ELSE 0]

RawOutputs ==
    {RawRow2D(OutAllZero.values), RawRow2D(OutCritical.values),
     RawRow2D(OutWarningWalking.values), RawRow2D(<<2, 8, 5>>),
     RawRow2D(ValuesLongBy3), RawVec1D(OutWarningWalking.values),
     RawVec1D(<<2, 8, 5>>), RawVec1D(<<20, 0, 10>>), RawVec1D(<<20, 30>>),
     RawVec1D(<<-15, 12>>), RawVec1D(<<0, 10, 10, 0>>), RawVec1D(ValuesShortBy2),
     RawVec1D(ValuesLongBy3), RawVec1D(<<>>),
     RawMatrix(<<OutCritical.values, OutWarningWalking.values>>),
     RawMatrix(<<<<2, 8>>, <<5, 4>>>>), RawNumber(10), RawNumber(30), RawText}

\* raw_pred.ravel(): the rows one after the other
RECURSIVE Ravel(_)
Ravel(rows) == IF rows = <<>> THEN <<>> ELSE Head(rows) \o Ravel(Tail(rows))

\* "Normalize predictions": preds, flattened
Normalize(raw) ==
    [numeric |-> raw.numeric,
     values |-> IF ~raw.isarray THEN Ravel(raw.rows)
                ELSE IF raw.ndim = 2 /\ Len(raw.rows) = 1 THEN raw.rows[1]
                ELSE IF raw.ndim = 1 /\ Len(raw.rows[1]) = Len(label_names)
                  THEN raw.rows[1]
                ELSE Ravel(raw.rows)]

\* int(v) for a float v given in tenths: truncation toward zero
TruncTenths(v) == IF v >= 0 THEN v \div 10 ELSE -((-v) \div 10)

\* a binarization whose threshold excludes 0.5 itself
BinarizeStrict(out) ==
    IF ~out.numeric THEN Zeros(Len(label_names))
    ELSE IF \E i \in 1..Len(out.values) : out.values[i] >= 0 /\ out.values[i] <= 10
      THEN [i \in 1..Len(out.values) |-> IF out.values[i] > 5 THEN 1 ELSE 0]
    ELSE [i \in 1..Len(out.values) |-> TruncTenths(out.values[i])]

\* the try block "Convert to binary predictions"
Binarize(out) ==
    IF ~out.numeric THEN Zeros(Len(label_names))
    ELSE IF \E i \in 1..Len(out.values) : out.values[i] >= 0 /\ out.values[i] <= 10
      THEN [i \in 1..Len(out.values) |-> IF out.values[i] >= 5 THEN 1 ELSE 0]
    ELSE [i \in 1..Len(out.values) |-> TruncTenths(out.values[i])]

\* a reconciliation that truncates a long vector but leaves a short one short
ReconcileNoPad(b) ==
    IF Len(b) < Len(label_names) THEN b ELSE SubSeq(b, 1, Len(label_names))

\* "Handle length mismatch"
Reconcile(b) ==
    IF Len(b) < Len(label_names) THEN b \o Zeros(Len(label_names) - Len(b))
    ELSE SubSeq(b, 1, Len(label_names))

\* a selection that takes every label whose entry is not 0
RECURSIVE ActiveFromNonZero(_, _)
ActiveFromNonZero(b, i) ==
    IF i > Len(b) THEN <<>>
    ELSE (IF b[i] # 0 THEN <<label_names[i]>> ELSE <<>>) \o ActiveFromNonZero(b, i + 1)

\* [self.label_names[i] for i, v in enumerate(binary_preds) if int(v) == 1]
RECURSIVE ActiveFrom(_, _)
ActiveFrom(b, i) ==
    IF i > Len(b) THEN <<>>
    ELSE (IF b[i] = 1 THEN <<label_names[i]>> ELSE <<>>) \o ActiveFrom(b, i + 1)

\* readings that pass _validate_sensor_data: a dict holding every feature name
HasAllKeys(readings) ==
    /\ readings.isdict
    /\ \A i \in 1..Len(feature_names) : feature_names[i] \in readings.keys

\* a recovery that empties the texts but keeps the priority of the labels
GenerateRecommendationKeepsPriority(labels, recRaises) ==
    IF recRaises
    THEN [priority |-> priority_level(labels), summary |-> <<>>, recommendation |-> <<>>]
    ELSE interpret(labels)

\* "Generate natural language recommendation": the result of interpret(), or when
\* interpret() raises the dict with summary "", recommendation "" and priority
\* "normal"
GenerateRecommendation(labels, recRaises) ==
    IF recRaises
    THEN [priority |-> "normal", summary |-> <<>>, recommendation |-> <<>>]
    ELSE interpret(labels)

\* a predict that answers a raising scaler or model with the all-zero vector
PredictSwallows(readings, scalerRaises, modelRaises, out, recRaises) ==
    IF ~HasAllKeys(readings) \/ ~readings.numeric
    THEN [raised |-> TRUE]
    ELSE LET binary_preds == IF scalerRaises \/ modelRaises
                             THEN Zeros(Len(label_names))
                             ELSE Reconcile(Binarize(out))
             active_labels == ActiveFrom(binary_preds, 1)
         IN  [raised |-> FALSE,
              sensor_data |-> readings,
              active_labels |-> active_labels,
              num_active |-> Len(active_labels),
              all_predictions |-> binary_preds,
              recommendation |-> GenerateRecommendation(active_labels, recRaises)]

\* predict(sensor_data) for the scaler / model behaviour of this call:
\* [raised |-> TRUE] when an exception leaves predict, else the result dict
Predict(readings, scalerRaises, modelRaises, out, recRaises) ==
    IF \/ ~HasAllKeys(readings)
       \/ ~readings.numeric
       \/ scalerRaises
       \/ modelRaises
    THEN [raised |-> TRUE]
    ELSE LET binary_preds == Reconcile(Binarize(out))
             active_labels == ActiveFrom(binary_preds, 1)
         IN  [raised |-> FALSE,
              sensor_data |-> readings,
              active_labels |-> active_labels,
              num_active |-> Len(active_labels),
              all_predictions |-> binary_preds,
              recommendation |-> GenerateRecommendation(active_labels, recRaises)]

----------------------------------------------------------------------------
(* main.py: main(), ActivityMonitor.__init__ and monitor_continuous *)

\* Records of sensor_data.json: "readings" present or not, a dict or not, the keys it
\* holds, and whether np.array(features, dtype=float) accepts its values
RecOk ==
    [present |-> TRUE, isdict |-> TRUE, keys |-> FeatureSet, numeric |-> TRUE]

RecMissingKey ==
    [present |-> TRUE, isdict |-> TRUE, keys |-> FeatureSet \ {"spo2_pct"},
     numeric |-> TRUE]

RecNoReadings ==
    [present |-> FALSE, isdict |-> FALSE, keys |-> {}, numeric |-> FALSE]

RecNullReadings ==
    [present |-> TRUE, isdict |-> FALSE, keys |-> {}, numeric |-> FALSE]

RecTextValue ==
    [present |-> TRUE, isdict |-> TRUE, keys |-> FeatureSet, numeric |-> FALSE]

\* Contents of sensor_data.json that json.load accepts
JsonFiles ==
    {<<>>, <<RecOk>>, <<RecOk, RecMissingKey>>, <<RecNoReadings, RecOk>>,
     <<RecNullReadings, RecOk>>, <<RecTextValue, RecOk>>}

NoResult == [raised |-> TRUE]

InitAM ==
    /\ apc = "main"
    /\ exit_code = "running"
    /\ json_data = <<>>
    /\ json_index = 0
    /\ scaler = "unset"
    /\ model = "unset"
    /\ init_error = "none"
    /\ sink_failed = {}
    /\ warned = {}
    /\ mqtt_publisher = "None"
    /\ mdns_service = "None"
    /\ log_f = "unopened"
    /\ log_header = 0
    /\ log_rows = <<>>
    /\ m_sensor_data = RecNoReadings
    /\ result = NoResult
    /\ cycle = 0
    /\ displayed = {}
    /\ published = {}
    /\ stages = <<>>
    /\ aborted = {}
    /\ emit_failed = {}
    /\ interrupted = FALSE

\* sys.exit(1), or an exception that leaves main()
Exit(code) ==
    /\ apc' = "exited"
    /\ exit_code' = code

\* the history of the sinks
sinkVars == <<sink_failed, warned>>

\* a sink operation failed; the code prints a warning for it or not
SinkFailure(name, printed) ==
    /\ sink_failed' = sink_failed \cup {name}
    /\ warned' = IF printed THEN warned \cup {name} ELSE warned

amLoopVars ==
    <<log_rows, m_sensor_data, result, cycle, displayed, published, stages, aborted,
      emit_failed, interrupted>>

\* main(): the os.path.isfile checks of the JSON file, the model and the scaler
MainCheckFiles ==
    /\ apc = "main"
    /\ \E jsonFound \in BOOLEAN, artifactsFound \in BOOLEAN :
          IF jsonFound /\ artifactsFound
          THEN apc' = "init_json" /\ UNCHANGED exit_code
          ELSE Exit("sys.exit(1)")
    /\ UNCHANGED <<json_data, json_index, scaler, model, mqtt_publisher,
                   mdns_service, log_f, log_header, init_error>>
    /\ UNCHANGED amLoopVars
    /\ UNCHANGED sinkVars
    /\ UNCHANGED smVars
    /\ UNCHANGED fnVars
    /\ UNCHANGED partVars

\* the constructor raised: `except Exception` of main() prints and calls sys.exit(1)
InitRaises(step) ==
    /\ init_error' = step
    /\ Exit("sys.exit(1)")

\* __init__ 1): isfile, open, json.load, len; a failure is raised
InitLoadJson ==
    /\ apc = "init_json"
    /\ \/ /\ \E file \in JsonFiles : json_data' = file
          /\ json_index' = 0
          /\ apc' = "init_artifacts"
          /\ UNCHANGED <<exit_code, init_error>>
       \/ /\ InitRaises("json")
          /\ UNCHANGED <<json_data, json_index>>
    /\ UNCHANGED <<scaler, model, mqtt_publisher, mdns_service, log_f, log_header>>
    /\ UNCHANGED amLoopVars
    /\ UNCHANGED sinkVars
    /\ UNCHANGED smVars
    /\ UNCHANGED fnVars
    /\ UNCHANGED partVars

\* a constructor that goes on whatever joblib.load did
ArtifactsLoadedLenient(scalerLoads, modelLoads) == TRUE

\* the try of __init__ 2) runs to its end
ArtifactsLoaded(scalerLoads, modelLoads) == scalerLoads /\ modelLoads

\* __init__ 2): joblib.load of the scaler, then of the model; a failure is raised
InitLoadArtifacts ==
    /\ apc = "init_artifacts"
    /\ \E scalerLoads \in BOOLEAN, modelLoads \in BOOLEAN :
          /\ scaler' = IF scalerLoads THEN "loaded" ELSE "unset"
          /\ model' = IF scalerLoads /\ modelLoads THEN "loaded" ELSE "unset"
          /\ IF ArtifactsLoaded(scalerLoads, modelLoads)
             THEN apc' = "init_engine" /\ UNCHANGED <<exit_code, init_error>>
             ELSE InitRaises("artifacts")
    /\ UNCHANGED <<json_data, json_index, mqtt_publisher, mdns_service, log_f, log_header>>
    /\ UNCHANGED amLoopVars
    /\ UNCHANGED sinkVars
    /\ UNCHANGED smVars
    /\ UNCHANGED fnVars
    /\ UNCHANGED partVars

\* __init__ 3): RecommendationEngine(); a failure is raised
InitEngine ==
    /\ apc = "init_engine"
    /\ \E engineBuilt \in BOOLEAN :
          IF engineBuilt
          THEN apc' = "init_mqtt" /\ UNCHANGED <<exit_code, init_error>>
          ELSE InitRaises("engine")
    /\ UNCHANGED <<json_data, json_index, scaler, model, mqtt_publisher,
                   mdns_service, log_f, log_header>>
    /\ UNCHANGED amLoopVars
    /\ UNCHANGED sinkVars
    /\ UNCHANGED smVars
    /\ UNCHANGED fnVars
    /\ UNCHANGED partVars

\* a constructor that keeps the publisher whatever connect() did
MqttAfterInitKeeps(outcome) == "connected"

\* self.mqtt_publisher after __init__ 4): kept only when it was built and connect()
\* is true
MqttAfterInit(outcome) == IF outcome = "connected" THEN "connected" ELSE "None"

\* __init__ 4): HealthMQTTPublisher(...), connect(); both failures print and go on
InitMqtt ==
    /\ apc = "init_mqtt"
    /\ \E outcome \in {"disabled", "connected", "connect_false", "raises"} :
          /\ mqtt_publisher' = MqttAfterInit(outcome)
          /\ IF outcome = "connect_false" THEN SinkFailure("mqtt_connect", TRUE)
             ELSE IF outcome = "raises" THEN SinkFailure("mqtt_init", TRUE)
             ELSE UNCHANGED sinkVars
    /\ apc' = "init_mdns"
    /\ UNCHANGED <<exit_code, json_data, json_index, scaler, model, mdns_service,
                   log_f, log_header, init_error>>
    /\ UNCHANGED amLoopVars
    /\ UNCHANGED smVars
    /\ UNCHANGED fnVars
    /\ UNCHANGED partVars

\* __init__ 5): the service is kept when start() is true or raises (the inner
\* except sets started = True and "mDNS advertised" is printed)
InitMdns ==
    /\ apc = "init_mdns"
    /\ \E outcome \in {"disabled", "started", "start_false", "start_raises",
                       "init_raises"} :
          /\ mdns_service' = IF outcome \in {"started", "start_raises"}
                             THEN "started" ELSE "None"
          /\ IF outcome = "start_false" THEN SinkFailure("mdns_start", TRUE)
             ELSE IF outcome = "start_raises"
               THEN SinkFailure("mdns_start_raises", FALSE)
             ELSE IF outcome = "init_raises" THEN SinkFailure("mdns_init", TRUE)
             ELSE UNCHANGED sinkVars
    /\ apc' = "open_log"
    /\ UNCHANGED <<exit_code, json_data, json_index, scaler, model, mqtt_publisher,
                   log_f, log_header, init_error>>
    /\ UNCHANGED amLoopVars
    /\ UNCHANGED smVars
    /\ UNCHANGED fnVars
    /\ UNCHANGED partVars

amInitVars == <<json_data, scaler, model, mqtt_publisher, mdns_service, init_error>>

\* an exception leaves monitor_continuous: main() runs its finally and ends with it
Raise(code) ==
    /\ apc' = "close"
    /\ exit_code' = code

\* monitor_continuous: open(log_file, "w"); a failure is re-raised and leaves main()
\* through its finally (monitor.close())
OpenLog ==
    /\ apc = "open_log"
    /\ \/ /\ log_f' = "open"
          /\ log_header' = 0
          /\ apc' = "header"
          /\ UNCHANGED <<exit_code, sink_failed, warned>>
       \/ /\ Raise("exception")
          /\ SinkFailure("log_open", TRUE)
          /\ UNCHANGED <<log_f, log_header>>
    /\ UNCHANGED <<json_index>>
    /\ UNCHANGED amInitVars
    /\ UNCHANGED amLoopVars
    /\ UNCHANGED smVars
    /\ UNCHANGED fnVars
    /\ UNCHANGED partVars

\* writer.writerow(header); f.flush(): outside every try of monitor_continuous
WriteHeader ==
    /\ apc = "header"
    /\ \E written \in BOOLEAN :
          IF written
          THEN /\ apc' = "read"
               /\ log_header' = log_header + 1
               /\ UNCHANGED <<exit_code, sink_failed, warned>>
          ELSE /\ Raise("exception")
               /\ SinkFailure("log_header", FALSE)
               /\ UNCHANGED log_header
    /\ UNCHANGED <<json_index, log_f>>
    /\ UNCHANGED amInitVars
    /\ UNCHANGED amLoopVars
    /\ UNCHANGED smVars
    /\ UNCHANGED fnVars
    /\ UNCHANGED partVars

\* an index that is never taken back to 0
WrapIndexNever(index, records) == index

\* the index read_sensors() uses: it wraps to 0 at the end of json_data
WrapIndex(index, records) == IF index >= Len(records) THEN 0 ELSE index

\* read_sensors() and _validate_sensor_data() succeed for the record at 0-based index i
ReadSucceeds(records, i) ==
    /\ i < Len(records)
    /\ records[i + 1].present
    /\ HasAllKeys(records[i + 1])

\* a loop whose read failure starts the next cycle at once
NextAfterReadNoSleep(ok) == IF ok THEN "predict" ELSE "read"

\* where the first try of the loop body leads: on to the prediction, or through
\* the except branches (warn, sleep, continue)
NextAfterRead(ok) == IF ok THEN "predict" ELSE "sleep"

\* the first try of the loop body: read_sensors(), _validate_sensor_data(); on
\* KeyError or any other Exception the cycle goes to its sleep
ReadSensors ==
    /\ apc = "read"
    /\ cycle < MaxCycles
    /\ cycle' = cycle + 1
    /\ LET i == WrapIndex(json_index, json_data)
       IN  /\ json_index' = IF i < Len(json_data) THEN i + 1 ELSE i
           /\ apc' = NextAfterRead(ReadSucceeds(json_data, i))
           /\ IF ReadSucceeds(json_data, i)
              THEN /\ m_sensor_data' = json_data[i + 1]
                   /\ stages' = <<"read">>
                   /\ UNCHANGED aborted
              ELSE /\ stages' = <<"read_failed">>
                   /\ aborted' = aborted \cup {cycle + 1}
                   /\ UNCHANGED m_sensor_data
    /\ result' = NoResult
    /\ UNCHANGED <<exit_code, log_f, log_header, log_rows, displayed, published, emit_failed,
                   interrupted>>
    /\ UNCHANGED amInitVars
    /\ UNCHANGED sinkVars
    /\ UNCHANGED smVars
    /\ UNCHANGED fnVars
    /\ UNCHANGED partVars

\* what the call of predict did, for the history of the cycle
PredictStage(readings, scalerRaises, modelRaises, out, recRaises) ==
    IF ~HasAllKeys(readings) \/ ~readings.numeric THEN "predict_failed"
    ELSE IF scalerRaises \/ modelRaises THEN "model_raised"
    ELSE IF recRaises THEN "recommendation_failed"
    ELSE IF ~out.numeric THEN "predict_fallback"
    ELSE "predict"

\* a loop that displays whatever predict did
NextAfterPredictAlways(r) == "display"

\* where the second try leads: on to the display, or through the except branch
\* (print, sleep, continue)
NextAfterPredict(r) == IF r.raised THEN "sleep" ELSE "display"

\* the model output with which interpret() is also let raise in the loop
RecFailureOutputs == {OutCritical}

\* the second try: result = self.predict(sensor_data); an exception skips the cycle
PredictStep ==
    /\ apc = "predict"
    /\ \E scalerRaises \in BOOLEAN, modelRaises \in BOOLEAN, out \in ModelOutputs :
       \E recRaises \in (IF out \in RecFailureOutputs THEN BOOLEAN ELSE {FALSE}) :
          LET r == Predict(m_sensor_data, scalerRaises, modelRaises, out, recRaises)
          IN  /\ stages' = Append(stages, PredictStage(m_sensor_data, scalerRaises,
                                                        modelRaises, out, recRaises))
              /\ apc' = NextAfterPredict(r)
              /\ IF r.raised
                 THEN /\ aborted' = aborted \cup {cycle}
                      /\ UNCHANGED result
                 ELSE /\ result' = r
                      /\ UNCHANGED aborted
    /\ UNCHANGED <<exit_code, json_index, log_f, log_header, log_rows, m_sensor_data, cycle,
                   displayed, published, emit_failed, interrupted>>
    /\ UNCHANGED amInitVars
    /\ UNCHANGED sinkVars
    /\ UNCHANGED smVars
    /\ UNCHANGED fnVars
    /\ UNCHANGED partVars

\* the third try: self.display_result(result); an exception is only warned
DisplayStep ==
    /\ apc = "display"
    /\ displayed' = displayed \cup {cycle}
    /\ \E raises \in BOOLEAN :
          /\ stages' = Append(stages, IF raises THEN "display_failed" ELSE "display")
          /\ emit_failed' = IF raises THEN emit_failed \cup {cycle} ELSE emit_failed
    /\ apc' = "publish"
    /\ UNCHANGED <<exit_code, json_index, log_f, log_header, log_rows, m_sensor_data, result, cycle,
                   published, aborted, interrupted>>
    /\ UNCHANGED amInitVars
    /\ UNCHANGED sinkVars
    /\ UNCHANGED smVars
    /\ UNCHANGED fnVars
    /\ UNCHANGED partVars

\* a loop that gives up the cycle when the publish raises
NextAfterPublishSkips(raises) == IF raises THEN "sleep" ELSE "log"

\* where the MQTT try leads: its except only warns
NextAfterPublish(raises) == "log"

\* if self.mqtt_publisher: try publish_health_update(result); an exception is only
\* warned
PublishStep ==
    /\ apc = "publish"
    /\ IF mqtt_publisher # "None"
       THEN /\ published' = published \cup {cycle}
            /\ \E raises \in BOOLEAN :
                  /\ stages' = Append(stages,
                                      IF raises THEN "publish_failed" ELSE "publish")
                  /\ emit_failed' =
                        IF raises THEN emit_failed \cup {cycle} ELSE emit_failed
                  /\ apc' = NextAfterPublish(raises)
                  /\ IF raises THEN SinkFailure("publish", TRUE)
                     ELSE UNCHANGED sinkVars
       ELSE /\ apc' = NextAfterPublish(FALSE)
            /\ UNCHANGED <<published, stages, emit_failed>>
            /\ UNCHANGED sinkVars
    /\ UNCHANGED <<exit_code, json_index, log_f, log_header, log_rows, m_sensor_data, result, cycle,
                   displayed, aborted, interrupted>>
    /\ UNCHANGED amInitVars
    /\ UNCHANGED smVars
    /\ UNCHANGED fnVars
    /\ UNCHANGED partVars

\* the CSV row of the cycle; the cycle number stands for result["timestamp"], and
\* <<feat, sensor>> for sensor_data[feat]
Row(c, sensor, res) ==
    [timestamp |-> c,
     features |-> [i \in 1..Len(feature_names) |-> <<feature_names[i], sensor>>],
     active_labels |-> res.active_labels,
     recommendation |-> res.recommendation.summary,
     priority |-> res.recommendation.priority]

\* a log whose new row takes the place of the last one
LogAfterWriteInPlace(rows, row, raises) ==
    IF raises THEN rows
    ELSE IF rows = <<>> THEN <<row>>
    ELSE [rows EXCEPT ![Len(rows)] = row]

\* the rows of the file after writer.writerow(row); f.flush(): the file was opened
\* once, the writer only adds at its end; a write that raises adds nothing
LogAfterWrite(rows, row, raises) ==
    IF raises THEN rows ELSE Append(rows, row)

\* the last try: writer.writerow(row); f.flush(); an exception is only warned
LogStep ==
    /\ apc = "log"
    /\ \E raises \in BOOLEAN :
          /\ stages' = Append(stages, IF raises THEN "log_failed" ELSE "log")
          /\ emit_failed' = IF raises THEN emit_failed \cup {cycle} ELSE emit_failed
          /\ log_rows' = LogAfterWrite(log_rows, Row(cycle, m_sensor_data, result), raises)
          /\ IF raises THEN SinkFailure("log_write", TRUE) ELSE UNCHANGED sinkVars
    /\ apc' = "sleep"
    /\ UNCHANGED <<exit_code, json_index, log_f, log_header, m_sensor_data, result, cycle, displayed,
                   published, aborted, interrupted>>
    /\ UNCHANGED amInitVars
    /\ UNCHANGED smVars
    /\ UNCHANGED fnVars
    /\ UNCHANGED partVars

\* time.sleep(poll_interval): of the two except branches and of the end of the body
SleepStep ==
    /\ apc = "sleep"
    /\ stages' = Append(stages, "sleep")
    /\ apc' = "read"
    /\ UNCHANGED <<exit_code, json_index, log_f, log_header, log_rows, m_sensor_data, result, cycle,
                   displayed, published, aborted, emit_failed, interrupted>>
    /\ UNCHANGED amInitVars
    /\ UNCHANGED sinkVars
    /\ UNCHANGED smVars
    /\ UNCHANGED fnVars
    /\ UNCHANGED partVars

LoopPositions == {"read", "predict", "display", "publish", "log", "sleep"}

\* KeyboardInterrupt inside the outer try: except KeyboardInterrupt, then finally
KeyboardInterruptInLoop ==
    /\ apc \in LoopPositions
    /\ interrupted' = TRUE
    /\ apc' = "finally"
    /\ UNCHANGED <<exit_code, json_index, log_f, log_header, log_rows, m_sensor_data, result, cycle,
                   displayed, published, stages, aborted, emit_failed>>
    /\ UNCHANGED amInitVars
    /\ UNCHANGED sinkVars
    /\ UNCHANGED smVars
    /\ UNCHANGED fnVars
    /\ UNCHANGED partVars

\* KeyboardInterrupt before the outer try is entered: it leaves monitor_continuous
\* and main() (through monitor.close()) without f.close()
KeyboardInterruptEarly ==
    /\ apc \in {"open_log", "header"}
    /\ interrupted' = TRUE
    /\ Raise("KeyboardInterrupt")
    /\ UNCHANGED <<json_index, log_f, log_header, log_rows, m_sensor_data, result, cycle, displayed,
                   published, stages, aborted, emit_failed>>
    /\ UNCHANGED amInitVars
    /\ UNCHANGED sinkVars
    /\ UNCHANGED smVars
    /\ UNCHANGED fnVars
    /\ UNCHANGED partVars

\* finally: f.close()
Finally ==
    /\ apc = "finally"
    /\ log_f' = "closed"
    /\ apc' = "close"
    /\ UNCHANGED log_header
    /\ UNCHANGED <<exit_code, json_index>>
    /\ UNCHANGED amInitVars
    /\ UNCHANGED amLoopVars
    /\ UNCHANGED sinkVars
    /\ UNCHANGED smVars
    /\ UNCHANGED fnVars
    /\ UNCHANGED partVars

\* main(): finally monitor.close() (disconnect, stop), then the process ends
MonitorClose ==
    /\ apc = "close"
    /\ mqtt_publisher' = IF mqtt_publisher = "None" THEN "None" ELSE "disconnected"
    /\ mdns_service' = IF mdns_service = "None" THEN "None" ELSE "stopped"
    /\ Exit(IF exit_code = "running" THEN "returned" ELSE exit_code)
    /\ UNCHANGED <<json_data, json_index, scaler, model, log_f, log_header, init_error>>
    /\ UNCHANGED amLoopVars
    /\ UNCHANGED sinkVars
    /\ UNCHANGED smVars
    /\ UNCHANGED fnVars
    /\ UNCHANGED partVars

----------------------------------------------------------------------------
(* SensorManager.__init__ and _start_subprocesses *)

\* __init__ after `scripts` is chosen: each script of SCRIPTS is in it
\* ("selected") or not, as the argument `sensors` decides; no process, no thread
InitConstructing ==
    /\ stop_event = FALSE
    /\ data_queue = <<>>
    /\ sensor_buffer = [f \in FeatureSet |-> None]
    /\ buffer_lock = "free"
    /\ procs \in [Sensors -> {"unselected", "selected"}]
    /\ rpc = [s \in Sensors |-> "unstarted"]
    /\ pending = [s \in Sensors |-> <<>>]
    /\ linesRead = 0
    /\ upc = "unstarted"
    /\ udata = NoReading
    /\ mpc = "start_subprocesses"
    /\ mi = 1
    /\ sensor_data = <<>>
    /\ data = <<>>
    /\ status_acc = <<>>
    /\ status = <<>>
    /\ ci = 1
    /\ produced = {}
    /\ lastNumeric = [f \in FeatureSet |-> None]
    /\ real_acc = {}
    /\ data_real = {}
    /\ enqueued = 0

\* what one pass of the loop of _start_subprocesses can meet: no file at the
\* path, Popen raising, Popen returning
LaunchOutcomes == {"missing", "popen_raises", "started"}

\* positions of `scripts` the loop of _start_subprocesses has still to visit
ScriptsLeft == {j \in mi..Len(SCRIPTS) : procs[SCRIPTS[j]] = "selected"}

\* positions of self.processes the thread loop of __init__ has still to visit
ProcessesLeft == {j \in mi..Len(SCRIPTS) : SCRIPTS[j] \in Launched}

\* a loop that gives up at the first script that cannot be started
AfterLaunchGivesUp(i, outcome) ==
    IF outcome = "started" THEN i + 1 ELSE Len(SCRIPTS) + 1

\* where the loop of _start_subprocesses goes after script i: `continue`, the
\* except branch and the normal end of the body all lead to the next script
AfterLaunch(i, outcome) == i + 1

\* one pass of the loop body of _start_subprocesses
StartSubprocess ==
    /\ mpc = "start_subprocesses"
    /\ ScriptsLeft # {}
    /\ \E outcome \in LaunchOutcomes :
          LET i == First(ScriptsLeft)
          IN  /\ procs' = [procs EXCEPT ![SCRIPTS[i]] =
                              IF outcome = "started" THEN "running" ELSE outcome]
              /\ mi' = AfterLaunch(i, outcome)
    /\ UNCHANGED <<stop_event, data_queue, sensor_buffer, buffer_lock, rpc, pending,
                   linesRead, upc, udata, mpc, sensor_data, data, status_acc,
                   status, ci, produced, lastNumeric, real_acc, data_real, enqueued>>
    /\ UNCHANGED amVars
    /\ UNCHANGED fnVars
    /\ UNCHANGED partVars

\* _start_subprocesses returns; `if not self.processes: raise RuntimeError`
StartSubprocessesReturn ==
    /\ mpc = "start_subprocesses"
    /\ ScriptsLeft = {}
    /\ mpc' = IF Launched = {} THEN "init_raised" ELSE "start_readers"
    /\ mi' = 1
    /\ UNCHANGED <<stop_event, data_queue, sensor_buffer, buffer_lock, procs, rpc,
                   pending, linesRead, upc, udata, sensor_data, data, status_acc,
                   status, ci, produced, lastNumeric, real_acc, data_real, enqueued>>
    /\ UNCHANGED amVars
    /\ UNCHANGED fnVars
    /\ UNCHANGED partVars

\* one pass of `for name, proc in self.processes`: the reader thread is started
StartReaderThread ==
    /\ mpc = "start_readers"
    /\ ProcessesLeft # {}
    /\ LET i == First(ProcessesLeft)
       IN  /\ rpc' = [rpc EXCEPT ![SCRIPTS[i]] = "read"]
           /\ mi' = i + 1
    /\ UNCHANGED <<stop_event, data_queue, sensor_buffer, buffer_lock, procs,
                   pending, linesRead, upc, udata, mpc, sensor_data, data,
                   status_acc, status, ci, produced, lastNumeric, real_acc,
                   data_real, enqueued>>
    /\ UNCHANGED amVars
    /\ UNCHANGED fnVars
    /\ UNCHANGED partVars

\* the buffer updater thread is started after the last reader thread
StartUpdaterThread ==
    /\ mpc = "start_readers"
    /\ ProcessesLeft = {}
    /\ upc' = "check"
    /\ mpc' = "init_sleep"
    /\ UNCHANGED <<stop_event, data_queue, sensor_buffer, buffer_lock, procs, rpc,
                   pending, linesRead, udata, mi, sensor_data, data, status_acc,
                   status, ci, produced, lastNumeric, real_acc, data_real, enqueued>>
    /\ UNCHANGED amVars
    /\ UNCHANGED fnVars
    /\ UNCHANGED partVars

\* time.sleep(5.0); __init__ returns to its caller
InitReturn ==
    /\ mpc = "init_sleep"
    /\ mpc' = "loop"
    /\ mi' = 1
    /\ UNCHANGED <<stop_event, data_queue, sensor_buffer, buffer_lock, procs, rpc,
                   pending, linesRead, upc, udata, sensor_data, data, status_acc,
                   status, ci, produced, lastNumeric, real_acc, data_real, enqueued>>
    /\ UNCHANGED amVars
    /\ UNCHANGED fnVars
    /\ UNCHANGED partVars

----------------------------------------------------------------------------
(* Single calls *)

NoCall == [fn |-> "none"]

\* monitor.predict(sensor_data) with any record's readings, any behaviour of the
\* scaler and the model, any model output
CallPredict ==
    /\ \E record \in {RecOk, RecMissingKey, RecTextValue},
          scalerRaises \in BOOLEAN, modelRaises \in BOOLEAN, raw \in RawOutputs,
          recRaises \in BOOLEAN :
          /\ call' = [fn |-> "predict", sensor_data |-> record,
                      scalerRaises |-> scalerRaises, modelRaises |-> modelRaises,
                      raw_pred |-> raw, recRaises |-> recRaises]
          /\ ret' = Predict(record, scalerRaises, modelRaises, Normalize(raw), recRaises)
    /\ UNCHANGED <<smVars, amVars, partVars>>

\* the labels of the taxonomy and a name that is in no table
AllLabels == SeqRange(label_names) \cup {"Unknown label"}

\* active-label lists: none, every single label, every pair, and longer lists:
\* the scenarios of _demo, three classes met in two orders, a label repeated
LabelLists ==
    {<<>>} \cup {<<a>> : a \in AllLabels} \cup {<<a, b>> : a, b \in AllLabels}
        \cup { <<"Low oxygen state", "Hot environment", "Walking">>,
               <<"Running", "Dehydrated", "High activity">>,
               <<"Critical", "Possible fever", "Overexertion">>,
               <<"Critical", "Stressed", "Walking">>,
               <<"Walking", "Stressed", "Critical">>,
               <<"Warning", "Stressed", "Fatigued", "Hot environment", "Running">>,
               <<"Walking", "Stressed", "Walking", "Stressed", "Fatigued">> }

\* intensity maps: not given; the one of scenario A of _demo; "high" for every
\* label; a word that is no intensity for every label
IntensityMaps ==
    { [none |-> TRUE, items |-> <<>>],
      [none |-> FALSE, items |-> [l \in {"Low oxygen state"} |-> "moderate"]],
      [none |-> FALSE, items |-> [l \in AllLabels |-> "high"]],
      [none |-> FALSE, items |-> [l \in AllLabels |-> "extreme"]] }

SensorFields == {"body_temp", "heart_rate_bpm", "spo2_pct", "ambient_temp", "humidity_pct"}

\* sensor mappings: not given; empty; the readings of scenario A of _demo; two
\* fields missing; one field text that is no number and one field None
SensorMaps ==
    { [none |-> TRUE, items |-> <<>>],
      [none |-> FALSE, items |-> <<>>],
      [none |-> FALSE, items |->
          [k \in SensorFields |->
              CASE k = "body_temp" -> <<"3", "7", ".", "9">>
                [] k = "heart_rate_bpm" -> <<"1", "1", "0">>
                [] k = "spo2_pct" -> <<"9", "1", ".", "0">>
                [] k = "ambient_temp" -> <<"3", "3", ".", "0">>
                [] k = "humidity_pct" -> <<"7", "0", ".", "0">>]],
      [none |-> FALSE, items |->
          [k \in SensorFields \ {"body_temp", "humidity_pct"} |-> <<"3", "6", ".", "5">>]],
      [none |-> FALSE, items |->
          [k \in SensorFields |->
              CASE k = "heart_rate_bpm" -> <<"n", "/", "a">>
                [] k = "spo2_pct" -> None
                [] OTHER -> <<"3", "6", ".", "5">>]] }

\* engine.interpret(labels, sensor_data, intensity_map, mode) on a new engine
CallInterpret ==
    /\ call = NoCall
    /\ \E labels \in LabelLists, sensors \in SensorMaps, imap \in IntensityMaps,
          mode \in {"short", "detailed"}, intro \in INTRO_PHRASES :
          /\ call' = [fn |-> "interpret", labels |-> labels, sensors |-> sensors,
                      intensity_map |-> imap, mode |-> mode]
          /\ ret' = Interpretation(labels, sensors, imap, mode, intro)
    /\ UNCHANGED <<smVars, amVars, partVars>>

\* the same engine is called again with the same arguments
CallInterpretAgain ==
    /\ call.fn = "interpret"
    /\ \E intro \in INTRO_PHRASES :
          ret' = Interpretation(call.labels, call.sensors, call.intensity_map,
                                call.mode, intro)
    /\ UNCHANGED <<call, smVars, amVars, partVars>>

\* self._parse_line(sensor, line) for any sensor and any line
CallParseLine ==
    /\ \E sensor \in Sensors, line \in AllLines :
          /\ call' = [fn |-> "parse_line", sensor |-> sensor, line |-> line]
          /\ ret' = ParseLine(sensor, line)
    /\ UNCHANGED <<smVars, amVars, partVars>>

----------------------------------------------------------------------------
(* sensor_manager.py: the dicts of read_all_sensors / get_sensor_status and their callers *)

\* dict objects a run creates at most, the buffer included
MaxObjects == 3

\* the metrics the updater writes and the callers change in their copies
SnapMetrics == {"body_temp", "spo2_pct"}

\* the floats the updater writes
SnapValues == {<<"3", "6", ".", "6">>, <<"3", "7", ".", "9">>}

\* d.get(k)
DictGet(d, k) == IF k \in DOMAIN d THEN d[k] ELSE None

\* d.pop(k, None)
DictPop(d, k) == [g \in DOMAIN d \ {k} |-> d[g]]

\* a function that hands out the buffer itself
ReturnedRefBuffer(buffer_ref, fresh) == buffer_ref

\* `sensor_data = {}` / `status = {}` ... `return sensor_data` / `return status`:
\* the reference returned is the one of the dict created in the call
ReturnedRef(buffer_ref, fresh) == fresh

\* the dict a reference returned by a call denotes after the call: the new dict
\* filled by the loop over feature_cols, or the buffer when that was returned
AfterCall(ref, filled) ==
    IF ref = 1 THEN heap ELSE Append(heap, filled)

\* self.sensor_buffer[metric] = value, by the updater between two calls
SnapBufferWrite ==
    /\ \E metric \in SnapMetrics, value \in SnapValues :
          /\ DictGet(heap[1], metric) # value
          /\ heap' = [heap EXCEPT ![1] = [g \in DOMAIN heap[1] \cup {metric} |->
                                            IF g = metric THEN value ELSE heap[1][g]]]
    /\ snap_op' = [op |-> "write", ref |-> 1]
    /\ UNCHANGED snaps
    /\ UNCHANGED <<smVars, amVars, fnVars, pubVars, loopVars>>

\* read_all_sensors(), the whole with block
SnapRead ==
    /\ Len(heap) < MaxObjects
    /\ LET ref == ReturnedRef(1, Len(heap) + 1)
           full == [g \in FeatureSet |-> DictGet(heap[1], g)]
       IN  /\ heap' = AfterCall(ref, [g \in FeatureSet |-> ReadValue(full, g)])
           /\ snaps' = Append(snaps, ref)
           /\ snap_op' = [op |-> "read_all_sensors", ref |-> ref]
    /\ UNCHANGED <<smVars, amVars, fnVars, pubVars, loopVars>>

\* get_sensor_status(), the whole with block; a status is written "True" / "False"
SnapStatus ==
    /\ Len(heap) < MaxObjects
    /\ LET ref == ReturnedRef(1, Len(heap) + 1)
           full == [g \in FeatureSet |-> DictGet(heap[1], g)]
       IN  /\ heap' = AfterCall(ref, [g \in FeatureSet |->
                                        IF StatusValue(full, g) THEN <<"True">>
                                        ELSE <<"False">>])
           /\ snaps' = Append(snaps, ref)
           /\ snap_op' = [op |-> "get_sensor_status", ref |-> ref]
    /\ UNCHANGED <<smVars, amVars, fnVars, pubVars, loopVars>>

\* a caller changes a mapping it was given: it removes a key
SnapCallerPops ==
    /\ \E i \in 1..Len(snaps), k \in SnapMetrics :
          /\ k \in DOMAIN heap[snaps[i]]
          /\ heap' = [heap EXCEPT ![snaps[i]] = DictPop(heap[snaps[i]], k)]
          /\ snap_op' = [op |-> "caller", ref |-> snaps[i]]
    /\ UNCHANGED snaps
    /\ UNCHANGED <<smVars, amVars, fnVars, pubVars, loopVars>>

----------------------------------------------------------------------------

(* mqtt_publisher.py: HealthMQTTPublisher *)

\* self.topics
topics(name) ==
    CASE name = "health_status" -> "health/status"
      [] name = "recommendation" -> "health/recommendation"
      [] name = "sensor_data" -> "health/sensors"
      [] name = "alerts" -> "health/alerts"

\* the keys of the result dict of predict()
ResultKeys ==
    {"timestamp", "sensor_data", "active_labels", "num_active", "all_predictions",
     "recommendation"}

\* a check that does not ask for the recommendation
RequiredNoRecommendation == {"timestamp", "sensor_data", "active_labels", "num_active"}

\* required of _validate_result
Required == {"timestamp", "sensor_data", "active_labels", "num_active", "recommendation"}

\* _validate_result(result) raises ValueError: a required key is not in result
ValidateRaises(res) == \E key \in Required : key \notin res.keys

\* an alert for priority critical only
NeedsAlertCriticalOnly(rec) == rec.truthy /\ rec.priority \in {"critical"}

\* rec and rec.get("priority") in ["critical", "warning"]
NeedsAlert(rec) == rec.truthy /\ rec.priority \in {"critical", "warning"}

\* the recommendation dict of a result as the publisher reads it: a dict with at
\* least one key is true; of the texts it is asked for, the advice
RecOf(labels, recRaises) ==
    LET r == GenerateRecommendation(labels, recRaises)
    IN  [truthy |-> TRUE, priority |-> r.priority, advice |-> r.recommendation]

\* Results handed to publish_health_update: what predict() returns for no label, a
\* caution, a warning and a critical label, and for a failed recommendation,
\* whole or with one key missing
PubLabels == {<<>>, <<"Stressed">>, <<"Possible fever">>, <<"Walking", "Critical">>}

PubDrops == {{}, {"num_active"}, {"recommendation"}}

PubResult(labels, recRaises, drop) ==
    [keys |-> ResultKeys \ drop, active_labels |-> labels,
     recommendation |-> RecOf(labels, recRaises)]

NoPubResult == [keys |-> {}, active_labels |-> <<>>,
                recommendation |-> [truthy |-> FALSE, priority |-> "normal",
                                    advice |-> <<>>]]

InitPub ==
    /\ connected = FALSE
    /\ last_callback = [kind |-> "none", rc |-> 0, reconnect |-> "none"]
    /\ ppc = "idle"
    /\ pub_result = NoPubResult
    /\ attempts = <<>>
    /\ pub_ret = "none"

\* what a call of _publish comes to: json.dumps raises, client.publish or
\* wait_for_publish raises, is_published() is false after the wait, or true
PublishOutcomes == {"encode_error", "publish_raises", "unconfirmed", "published"}

\* _publish(topic, message, qos): the call as the history keeps it; it returns
\* True only when the message was published, and raises in no case
Publish(topic, message, qos, outcome) ==
    [topic |-> topic, message |-> message, qos |-> qos,
     returned |-> (outcome = "published")]

\* _on_connect(client, userdata, flags, rc), on the network thread
OnConnect ==
    /\ \E rc \in {0, 5} :
          /\ connected' = IF rc = 0 THEN TRUE ELSE connected
          /\ last_callback' = [kind |-> "connect", rc |-> rc, reconnect |-> "none"]
    /\ UNCHANGED <<ppc, pub_result, attempts, pub_ret>>
    /\ UNCHANGED <<smVars, amVars, fnVars, snapVars, loopVars>>

\* _on_disconnect(client, userdata, rc), on the network thread: rc != 0 calls
\* client.reconnect(), whose exception is caught
OnDisconnect ==
    /\ \E rc \in {0, 7}, reconnectRaises \in BOOLEAN :
          /\ connected' = FALSE
          /\ last_callback' =
                [kind |-> "disconnect", rc |-> rc,
                 reconnect |-> IF rc = 0 THEN "none"
                               ELSE IF reconnectRaises THEN "raised" ELSE "called"]
    /\ UNCHANGED <<ppc, pub_result, attempts, pub_ret>>
    /\ UNCHANGED <<smVars, amVars, fnVars, snapVars, loopVars>>

\* publish_health_update(result) up to the timestamp: not connected, or a result
\* that fails the validation, returns False
PublishHealthUpdate ==
    /\ ppc = "idle"
    /\ \E labels \in PubLabels, recRaises \in BOOLEAN, drop \in PubDrops :
       LET res == PubResult(labels, recRaises, drop)
       IN
          /\ pub_result' = res
          /\ attempts' = <<>>
          /\ IF ~connected \/ ValidateRaises(res)
             THEN /\ pub_ret' = "False"
                  /\ ppc' = "idle"
             ELSE /\ pub_ret' = "running"
                  /\ ppc' = "recommendation"
    /\ UNCHANGED <<connected, last_callback>>
    /\ UNCHANGED <<smVars, amVars, fnVars, snapVars, loopVars>>

\* "1. Recommendation": published when rec is true
PublishRecommendation ==
    /\ ppc = "recommendation"
    /\ LET rec == pub_result.recommendation
       IN  IF rec.truthy
           THEN \E outcome \in PublishOutcomes :
                   attempts' = Append(attempts,
                       Publish(topics("recommendation"),
                               [advice |-> rec.advice, priority |-> rec.priority],
                               1, outcome))
           ELSE UNCHANGED attempts
    /\ ppc' = "sensor_data"
    /\ UNCHANGED <<connected, last_callback, pub_result, pub_ret>>
    /\ UNCHANGED <<smVars, amVars, fnVars, snapVars, loopVars>>

\* "2. Sensor data"
PublishSensorData ==
    /\ ppc = "sensor_data"
    /\ \E outcome \in PublishOutcomes :
          attempts' = Append(attempts,
              Publish(topics("sensor_data"), [sensors |-> "sensor_data"], 0, outcome))
    /\ ppc' = "health_status"
    /\ UNCHANGED <<connected, last_callback, pub_result, pub_ret>>
    /\ UNCHANGED <<smVars, amVars, fnVars, snapVars, loopVars>>

\* "3. Health status"
PublishHealthStatus ==
    /\ ppc = "health_status"
    /\ LET rec == pub_result.recommendation
       IN  \E outcome \in PublishOutcomes :
              attempts' = Append(attempts,
                  Publish(topics("health_status"),
                          [priority |-> IF rec.truthy THEN rec.priority ELSE "normal"],
                          1, outcome))
    /\ ppc' = "alerts"
    /\ UNCHANGED <<connected, last_callback, pub_result, pub_ret>>
    /\ UNCHANGED <<smVars, amVars, fnVars, snapVars, loopVars>>

\* "4. Critical alerts (if needed)", and return True
PublishAlerts ==
    /\ ppc = "alerts"
    /\ LET rec == pub_result.recommendation
       IN  IF NeedsAlert(rec)
           THEN \E outcome \in PublishOutcomes :
                   attempts' = Append(attempts,
                       Publish(topics("alerts"),
                               [level |-> rec.priority,
                                labels |-> pub_result.active_labels], 2, outcome))
           ELSE UNCHANGED attempts
    /\ ppc' = "idle"
    /\ pub_ret' = "True"
    /\ UNCHANGED <<connected, last_callback, pub_result>>
    /\ UNCHANGED <<smVars, amVars, fnVars, snapVars, loopVars>>

----------------------------------------------------------------------------

(* mpu6050_sensor.py: the conversion of two register bytes *)

\* what an I2C register read returns
Bytes == 0..255

\* a | b on non-negative integers
RECURSIVE BitOr(_, _)
BitOr(a, b) ==
    IF a = 0 THEN b
    ELSE IF b = 0 THEN a
    ELSE 2 * BitOr(a \div 2, b \div 2) + (IF a % 2 = 1 \/ b % 2 = 1 THEN 1 ELSE 0)

\* a << n on non-negative integers
ShiftLeft(a, n) == a * 2 ^ n

\* MPU6050._convert_raw(high, low)
convert_raw(high, low) ==
    LET value == BitOr(ShiftLeft(high, 8), low)
    IN  IF value > 32768 THEN value - 65536 ELSE value

\* the value MPU6050.read_raw_data(addr) returns when the registers addr and
\* addr + 1 read as high and low
read_raw_data(high, low) ==
    LET value == BitOr(ShiftLeft(high, 8), low)
    IN  IF value > 32768 THEN value - 65536 ELSE value

\* mpu._convert_raw(high, low) for any two bytes
CallConvertRaw ==
    /\ call = NoCall
    /\ \E high \in Bytes, low \in Bytes :
          /\ call' = [fn |-> "_convert_raw", high |-> high, low |-> low]
          /\ ret' = convert_raw(high, low)
    /\ UNCHANGED <<smVars, amVars, partVars>>

\* mpu.read_raw_data(addr) with any two bytes in the registers
CallReadRawData ==
    /\ call = NoCall
    /\ \E high \in Bytes, low \in Bytes :
          /\ call' = [fn |-> "read_raw_data", high |-> high, low |-> low]
          /\ ret' = read_raw_data(high, low)
    /\ UNCHANGED <<smVars, amVars, partVars>>

----------------------------------------------------------------------------

(* bme280_sensor.py and temp_ds18b20_sensor.py: main() *)

\* the iterations a run of a script is followed for
MaxIterations == 12

\* max_consecutive_errors of both scripts
max_consecutive_errors == 10

\* the lines an iteration prints on stdout after a successful read, by what
\* starts them: three labelled values of the BME280, the bare number of the DS18B20
ValueLines(s) ==
    IF s = "bme280" THEN <<"Temperature: ", "Pressure: ", "Humidity: ">>
    ELSE <<"temp:.1f">>

NoIteration == [read |-> "none", printed |-> <<>>, reinit |-> "none"]

InitScript ==
    /\ script = "none"
    /\ spc = "unstarted"
    /\ consecutive_errors = 0
    /\ iterations = 0
    /\ stdout_lines = 0
    /\ last_iteration = NoIteration
    /\ script_exit = "running"

\* a test that lets the counter pass the maximum before the sensor is looked for
TooManyErrorsLate(errors) == errors > max_consecutive_errors

\* if consecutive_errors >= max_consecutive_errors
TooManyErrors(errors) == errors >= max_consecutive_errors

\* main() up to the loop: init_sensor() / find_sensor(); exit code 1 when the
\* sensor is not there
ScriptStart ==
    /\ spc = "unstarted"
    /\ \E s \in {"bme280", "ds18b20"}, found \in BOOLEAN :
          /\ script' = s
          /\ spc' = IF found THEN "loop" ELSE "exited"
          /\ script_exit' = IF found THEN "running" ELSE "1"
    /\ UNCHANGED <<consecutive_errors, iterations, stdout_lines, last_iteration>>
    /\ UNCHANGED <<smVars, amVars, fnVars, snapVars, pubVars>>

\* one iteration of the loop: read_sensor() / read_temp() returns the values or
\* None; the values are printed and the counter is set to 0, or the counter is
\* incremented and at the maximum the sensor is initialized (found) again
ScriptIteration ==
    /\ spc = "loop"
    /\ iterations < MaxIterations
    /\ iterations' = iterations + 1
    /\ \E ok \in BOOLEAN, found \in BOOLEAN :
          IF ok
          THEN /\ stdout_lines' = stdout_lines + Len(ValueLines(script))
               /\ consecutive_errors' = 0
               /\ last_iteration' = [read |-> "values", printed |-> ValueLines(script),
                                     reinit |-> "none"]
               /\ UNCHANGED <<spc, script_exit>>
          ELSE IF ~TooManyErrors(consecutive_errors + 1)
          THEN /\ consecutive_errors' = consecutive_errors + 1
               /\ last_iteration' = [read |-> "None", printed |-> <<>>, reinit |-> "none"]
               /\ UNCHANGED <<spc, script_exit, stdout_lines>>
          ELSE IF found
          THEN /\ consecutive_errors' = 0
               /\ last_iteration' = [read |-> "None", printed |-> <<>>, reinit |-> "found"]
               /\ UNCHANGED <<spc, script_exit, stdout_lines>>
          ELSE /\ consecutive_errors' = consecutive_errors + 1
               /\ last_iteration' = [read |-> "None", printed |-> <<>>,
                                     reinit |-> "not found"]
               /\ spc' = "exited"
               /\ script_exit' = "1"
               /\ UNCHANGED stdout_lines
    /\ UNCHANGED script
    /\ UNCHANGED <<smVars, amVars, fnVars, snapVars, pubVars>>

\* KeyboardInterrupt in the loop: the message goes to stderr and main() returns
ScriptInterrupt ==
    /\ spc = "loop"
    /\ spc' = "exited"
    /\ script_exit' = "returned"
    /\ UNCHANGED <<script, consecutive_errors, iterations, stdout_lines, last_iteration>>
    /\ UNCHANGED <<smVars, amVars, fnVars, snapVars, pubVars>>

----------------------------------------------------------------------------

(* Specifications *)

\* no snapshot has been taken: the only dict is the buffer, every metric None
InitSnap ==
    /\ heap = << [f \in FeatureSet |-> None] >>
    /\ snaps = <<>>
    /\ snap_op = [op |-> "none", ref |-> 0]

InitParts ==
    /\ InitSnap
    /\ InitPub
    /\ InitScript

vars == <<smVars, amVars, fnVars, partVars>>

\* Both programs at their start, no function called
Init ==
    /\ InitSM
    /\ InitAM
    /\ call = NoCall
    /\ ret = NoCall
    /\ InitParts

\* The sensor manager under sensor_test.py: reader threads, updater, main thread
Next ==
    \/ \E s \in Sensors : ReadLine(s)
    \/ \E s \in Sensors : PutReading(s)
    \/ \E s \in Sensors : ReaderEOF(s)
    \/ UCheckStop
    \/ UGet
    \/ UAcquire
    \/ UWrite
    \/ MCallRead
    \/ MReadFeature
    \/ MReturnRead
    \/ MCallStatus
    \/ MStatusFeature
    \/ MReturnStatus
    \/ MSleep
    \/ MInterrupt
    \/ MCloseStop
    \/ MCloseTerminate
    \/ MCloseWait
    \/ MCloseKill
    \/ MCloseJoin

Spec == Init /\ [][Next]_vars

\* The buffer updater as the handler of any queued item, with the snapshot calls
NextBuf ==
    \/ EnqueueAny
    \/ UCheckStop
    \/ UGet
    \/ UAcquire
    \/ UWrite
    \/ MCallRead
    \/ MReadFeature
    \/ MReturnRead
    \/ MCallStatus
    \/ MStatusFeature
    \/ MReturnStatus
    \/ MSleep

SpecBuf == Init /\ [][NextBuf]_vars

\* The constructor of SensorManager, for any choice of sensors and any outcome
\* of each launch
InitStart ==
    /\ InitConstructing
    /\ InitAM
    /\ call = NoCall
    /\ ret = NoCall
    /\ InitParts

NextStart ==
    \/ StartSubprocess
    \/ StartSubprocessesReturn
    \/ StartReaderThread
    \/ StartUpdaterThread
    \/ InitReturn

SpecStart == InitStart /\ [][NextStart]_vars

\* the processes close() can find: one script never launched, one process
\* gone by itself, two running; a single process, running or gone
CloseConfigs ==
    { [s \in Sensors |-> IF s = "max30102" THEN "missing"
                         ELSE IF s = "ds18b20" THEN "exited" ELSE "running"],
      [s \in Sensors |-> IF s = "bme280" THEN "running" ELSE "missing"],
      [s \in Sensors |-> IF s = "mpu6050" THEN "exited" ELSE "missing"] }

\* close() called on a constructed manager: some scripts were never launched,
\* some processes have exited by themselves, the others run; every thread runs
InitClosing ==
    /\ stop_event = FALSE
    /\ data_queue = <<>>
    /\ sensor_buffer = [f \in FeatureSet |-> None]
    /\ buffer_lock = "free"
    /\ procs \in CloseConfigs
    /\ rpc = [s \in Sensors |-> IF s \in Launched THEN "read" ELSE "unstarted"]
    /\ pending = [s \in Sensors |-> <<>>]
    /\ linesRead = 0
    /\ upc = "check"
    /\ udata = NoReading
    /\ mpc = "closing"
    /\ mi = 1
    /\ sensor_data = <<>>
    /\ data = <<>>
    /\ status_acc = <<>>
    /\ status = <<>>
    /\ ci = 1
    /\ produced = {}
    /\ lastNumeric = [f \in FeatureSet |-> None]
    /\ real_acc = {}
    /\ data_real = {}
    /\ enqueued = 0

InitClose ==
    /\ InitClosing
    /\ InitAM
    /\ call = NoCall
    /\ ret = NoCall
    /\ InitParts

\* the steps of close()
CloseSteps ==
    \/ MCloseStop
    \/ MCloseTerminate
    \/ MCloseWait
    \/ MCloseKill
    \/ MCloseJoin

\* the steps of the buffer updater thread outside its with block
UpdaterSteps ==
    \/ UCheckStop
    \/ UGet
    \/ UAcquire

\* the steps reader thread s takes without a new line from its worker
ReaderSteps(s) ==
    \/ PutReading(s)
    \/ ReaderEOF(s)

NextClose ==
    \/ \E s \in Sensors : ReadLine(s)
    \/ \E s \in Sensors : PutReading(s)
    \/ \E s \in Sensors : ReaderEOF(s)
    \/ UCheckStop
    \/ UGet
    \/ UAcquire
    \/ UWrite
    \/ MCloseStop
    \/ MCloseTerminate
    \/ MCloseWait
    \/ MCloseKill
    \/ MCloseJoin

\* close() with the threads it leaves behind. Every thread that can take a
\* step takes it in the end: wait() and join() have timeouts, get() has one,
\* put() on an unbounded queue never blocks, and the read of a closed pipe
\* returns end of file. Nothing makes a worker print a line. UWrite is
\* enabled exactly when upc = "write" and always leaves that position, so its
\* weak fairness is the formula []<>(upc # "write").
SpecClose ==
    /\ InitClose
    /\ [][NextClose]_vars
    /\ WF_vars(CloseSteps)
    /\ WF_vars(UpdaterSteps)
    /\ []<>(upc # "write")
    /\ WF_vars(ReaderSteps("max30102"))
    /\ WF_vars(ReaderSteps("ds18b20"))
    /\ WF_vars(ReaderSteps("bme280"))
    /\ WF_vars(ReaderSteps("mpu6050"))

\* Calls of interpret() on one engine
NextEngine ==
    \/ CallInterpret
    \/ CallInterpretAgain

SpecEngine == Init /\ [][NextEngine]_vars

\* Snapshots taken and changed by their callers while the updater writes
NextSnap ==
    \/ SnapBufferWrite
    \/ SnapRead
    \/ SnapStatus
    \/ SnapCallerPops

SpecSnap == Init /\ [][NextSnap]_vars

\* one worker runs (ds18b20), the other scripts were not found; the reader and
\* the updater run, the main thread is between two snapshots
InitDelivery ==
    /\ stop_event = FALSE
    /\ data_queue = <<>>
    /\ sensor_buffer = [f \in FeatureSet |-> None]
    /\ buffer_lock = "free"
    /\ procs = [s \in Sensors |-> IF s = "ds18b20" THEN "running" ELSE "missing"]
    /\ rpc = [s \in Sensors |-> IF s = "ds18b20" THEN "read" ELSE "unstarted"]
    /\ pending = [s \in Sensors |-> <<>>]
    /\ linesRead = 0
    /\ upc = "check"
    /\ udata = NoReading
    /\ mpc = "loop"
    /\ mi = 1
    /\ sensor_data = <<>>
    /\ data = <<>>
    /\ status_acc = <<>>
    /\ status = <<>>
    /\ ci = 1
    /\ produced = {}
    /\ lastNumeric = [f \in FeatureSet |-> None]
    /\ real_acc = {}
    /\ data_real = {}
    /\ enqueued = 0
    /\ InitAM
    /\ call = NoCall
    /\ ret = NoCall
    /\ InitParts

NextDelivery ==
    \/ \E s \in Sensors : ReadLine(s)
    \/ \E s \in Sensors : PutReading(s)
    \/ EnqueueFew
    \/ UCheckStop
    \/ UGet
    \/ UAcquire
    \/ UWrite
    \/ MInterrupt
    \/ MCloseStop

\* Readings on their way from the queue to the buffer, until the main thread
\* sets the stop signal; the main thread takes no snapshot meanwhile, so the
\* updater is the only user of the lock. The updater takes every step it can
\* take: get() has a timeout and nothing else in its loop waits. UWrite is
\* enabled exactly when upc = "write" and always leaves that position, so its
\* weak fairness is the formula []<>(upc # "write").
SpecDelivery ==
    /\ InitDelivery
    /\ [][NextDelivery]_vars
    /\ WF_vars(UpdaterSteps)
    /\ []<>(upc # "write")

\* The publisher: the callbacks of the network thread and the updates of a caller
NextPub ==
    \/ OnConnect
    \/ OnDisconnect
    \/ PublishHealthUpdate
    \/ PublishRecommendation
    \/ PublishSensorData
    \/ PublishHealthStatus
    \/ PublishAlerts

SpecPub == Init /\ [][NextPub]_vars


\* The conversions of the MPU6050 driver, one call each
NextMpu6050 ==
    \/ CallConvertRaw
    \/ CallReadRawData

SpecMpu6050 == Init /\ [][NextMpu6050]_vars

\* A sensor script from its start to its exit
NextScript ==
    \/ ScriptStart
    \/ ScriptIteration
    \/ ScriptInterrupt

SpecScript == Init /\ [][NextScript]_vars

\* Calls of single functions with arguments of any kind
NextFn ==
    \/ CallPredict
    \/ CallParseLine

SpecFn == Init /\ [][NextFn]_vars

\* main.py: main(), the constructor and the monitoring loop
NextMon ==
    \/ MainCheckFiles
    \/ InitLoadJson
    \/ InitLoadArtifacts
    \/ InitEngine
    \/ InitMqtt
    \/ InitMdns
    \/ OpenLog
    \/ WriteHeader
    \/ ReadSensors
    \/ PredictStep
    \/ DisplayStep
    \/ PublishStep
    \/ LogStep
    \/ SleepStep
    \/ KeyboardInterruptInLoop
    \/ KeyboardInterruptEarly
    \/ Finally
    \/ MonitorClose

SpecMon == Init /\ [][NextMon]_vars

----------------------------------------------------------------------------
(* Properties of the sensor manager *)

\* C1: whenever read_all_sensors() has returned, its mapping holds exactly the 12
\* feature metrics in the order of ActivityMonitor.feature_names, and every value
\* is a float (never None), whatever readings have arrived so far.
C1_SnapshotComplete ==
    mpc \in {"between", "stat", "report"} =>
        /\ Len(data) = Len(feature_names)
        /\ \A i \in 1..Len(data) :
              /\ data[i][1] = feature_names[i]
              /\ IsFloat(data[i][2])

\* a returned snapshot with some metrics observed and some still on their default
C1_Witness ==
    /\ mpc = "report"
    /\ data_real # {}
    /\ data_real # FeatureSet

\* C2: as long as a source has produced no parsed reading, every returned snapshot
\* holds the static default for each of that source's metrics and every returned
\* status map marks them False, whatever the other sources have reported.
C2_SilentSourceDefaults ==
    \A s \in Sensors :
        s \notin produced =>
            /\ \A i \in 1..Len(data) :
                  data[i][1] \in MetricsOf(s) => data[i][2] = DefaultOf(data[i][1])
            /\ \A i \in 1..Len(status) :
                  status[i][1] \in MetricsOf(s) => status[i][2] = FALSE

\* the BME280 is silent while the DS18B20 reading is in the returned snapshot
C2_Witness ==
    /\ mpc = "report"
    /\ "bme280" \notin produced
    /\ "body_temp" \in data_real
    /\ Len(status) = Len(feature_cols)

\* C3: the updater never writes the buffer while read_all_sensors() or
\* get_sensor_status() is between its first and last metric read, so everything a
\* running snapshot has read so far still equals what the buffer holds.
C3_SnapshotAtomic ==
    /\ ~(upc = "write" /\ mpc \in {"snap", "stat"})
    /\ mpc = "snap" =>
          \A i \in 1..Len(sensor_data) :
              sensor_data[i][2] = ReadValue(sensor_buffer, sensor_data[i][1])
    /\ mpc = "stat" =>
          \A i \in 1..Len(status_acc) :
              status_acc[i][2] = StatusValue(sensor_buffer, status_acc[i][1])

\* the updater waits at the lock with a reading for a metric the running snapshot
\* has already read
C3_Witness ==
    /\ mpc = "snap"
    /\ upc = "lock"
    /\ \E i \in 1..Len(sensor_data) : sensor_data[i][1] = udata.metric

\* C4: the buffer holds for every metric the most recently applied numeric reading
\* (None when there was none), whatever its magnitude and whatever non-numeric
\* readings came in between, and a running snapshot has read exactly that value,
\* the default only for a metric never observed.
C4_LastWriteWins ==
    /\ \A m \in FeatureSet : sensor_buffer[m] = lastNumeric[m]
    /\ mpc = "snap" =>
          \A i \in 1..Len(sensor_data) :
              sensor_data[i][2] = IF lastNumeric[sensor_data[i][1]] = None
                                  THEN DefaultOf(sensor_data[i][1])
                                  ELSE lastNumeric[sensor_data[i][1]]

\* two items were handled, the buffer is back to idle, and the snapshot has read
\* the reading of large magnitude
C4_Witness ==
    /\ mpc = "snap"
    /\ enqueued = MaxEnqueued
    /\ data_queue = <<>>
    /\ upc # "write"
    /\ \E i \in 1..Len(sensor_data) :
          sensor_data[i] = <<"body_temp", <<"-", "9", "0", "0", "0", "0", ".", "2", "5">>>>

\* C5: when the status map of get_sensor_status() follows the snapshot of
\* read_all_sensors(), a metric is marked available exactly when the snapshot
\* held a real reading for it.
C5_StatusMatchesSnapshot ==
    mpc = "report" =>
        \A i \in 1..Len(status) : status[i][2] = (status[i][1] \in data_real)

----------------------------------------------------------------------------
(* Properties of the monitoring loop *)

Last(seq) == seq[Len(seq)]

\* the place of a stage in a cycle: read, predict, display, publish, log, sleep
StageOrder(stage) ==
    CASE stage \in {"read", "read_failed"} -> 1
      [] stage \in {"predict", "predict_fallback", "recommendation_failed",
                    "predict_failed", "model_raised"} -> 2
      [] stage \in {"display", "display_failed"} -> 3
      [] stage \in {"publish", "publish_failed"} -> 4
      [] stage \in {"log", "log_failed"} -> 5
      [] stage = "sleep" -> 6

RowsOf(c) == {i \in 1..Len(log_rows) : log_rows[i].timestamp = c}

NormalRecommendation ==
    [priority |-> "normal", summary |-> <<"everything looks normal.">>,
     recommendation |-> <<FallbackAction>>]

\* C6 as stated: in a cycle whose scaler or model call raised, predict still yields
\* a result with an all-zero vector, no active labels and the normal
\* "everything looks normal" recommendation, and the cycle goes on to emit it.
C6_ModelFailureYieldsZeroResult ==
    "model_raised" \in SeqRange(stages) =>
        /\ cycle \notin aborted
        /\ result # NoResult
        /\ result.all_predictions = Zeros(Len(label_names))
        /\ result.active_labels = <<>>
        /\ result.recommendation = NormalRecommendation

\* C6 amended: an exception of the scaler or the model leaves predict(); the loop
\* catches it and skips the cycle: no result, nothing displayed, published or
\* logged, only the sleep.  The all-zero vector with no active labels and the
\* normal "everything looks normal" recommendation is what a cycle works with when
\* the model's output cannot be converted to floats, and that cycle's row says so.
C6_ModelFailureSkipsCycle ==
    /\ "model_raised" \in SeqRange(stages) =>
          /\ cycle \in aborted
          /\ result = NoResult
          /\ cycle \notin displayed \cup published
          /\ RowsOf(cycle) = {}
          /\ stages \in {<<"read", "model_raised">>, <<"read", "model_raised", "sleep">>}
    /\ "predict_fallback" \in SeqRange(stages) =>
          /\ cycle \notin aborted
          /\ result.all_predictions = Zeros(Len(label_names))
          /\ result.active_labels = <<>>
          /\ result.num_active = 0
          /\ result.recommendation = NormalRecommendation
          /\ "log" \in SeqRange(stages) =>
                /\ Last(log_rows).timestamp = cycle
                /\ Last(log_rows).active_labels = <<>>
                /\ Last(log_rows).priority = "normal"

\* the second cycle was skipped after the model raised, the first cycle is logged
C6_Witness ==
    /\ stages = <<"read", "model_raised", "sleep">>
    /\ cycle = 2
    /\ Len(log_rows) = 1

\* C7: a cycle whose read, validation or prediction failed displays, publishes and
\* logs nothing; it only sleeps once and the loop is back at the start of a cycle;
\* the loop is left only by a KeyboardInterrupt.
C7_FailureAbortsOnlyCycle ==
    /\ \A c \in aborted :
          /\ c \notin displayed
          /\ c \notin published
          /\ RowsOf(c) = {}
    /\ cycle \in aborted =>
          /\ \/ stages \in {<<"read_failed">>, <<"read_failed", "sleep">>}
             \/ /\ Len(stages) \in {2, 3}
                /\ stages[1] = "read"
                /\ stages[2] \in {"predict_failed", "model_raised"}
                /\ Len(stages) = 3 => stages[3] = "sleep"
          /\ ~interrupted => apc = (IF Last(stages) = "sleep" THEN "read" ELSE "sleep")
    /\ (cycle > 0 /\ stages[1] = "read_failed") => cycle \in aborted
    /\ (Len(stages) > 1 /\ stages[2] \in {"predict_failed", "model_raised"}) =>
          cycle \in aborted
    /\ (cycle > 0 /\ apc \notin LoopPositions) => interrupted

\* both cycles so far failed (the first in predicting, the second in reading) and
\* the loop is at the start of the next cycle
C7_Witness ==
    /\ apc = "read"
    /\ cycle = 2
    /\ aborted = {1, 2}
    /\ stages = <<"read_failed", "sleep">>
    /\ json_index = 2
    /\ ~interrupted

\* C8: after a publish that raised the cycle goes on to its log row, which is
\* written when the write itself does not fail; after a display or a log write
\* that raised the cycle goes on as well and ends with the sleep; no such failure
\* ends the loop.
C8_EmitFailureContinues ==
    /\ \A i \in 1..Len(stages) :
          /\ stages[i] = "display_failed" =>
                \/ Len(stages) > i
                \/ apc \in {"publish", "log"}
                \/ interrupted
          /\ stages[i] = "publish_failed" =>
                \/ Len(stages) > i /\ stages[i + 1] \in {"log", "log_failed"}
                \/ Len(stages) = i /\ apc = "log"
                \/ Len(stages) = i /\ interrupted
          /\ stages[i] = "log_failed" =>
                \/ Len(stages) = i + 1 /\ stages[i + 1] = "sleep" /\ apc = "read"
                \/ Len(stages) = i /\ apc = "sleep"
                \/ interrupted
    /\ ("publish_failed" \in SeqRange(stages) /\ "log" \in SeqRange(stages)) =>
          RowsOf(cycle) # {}
    /\ (emit_failed # {} /\ apc \notin LoopPositions) => interrupted

\* the publish raised, the row of the same cycle is in the log, the cycle slept
C8_Witness ==
    /\ stages = <<"read", "predict", "display", "publish_failed", "log", "sleep">>
    /\ apc = "read"
    /\ RowsOf(cycle) # {}
    /\ 1 \in emit_failed
    /\ cycle = 2

\* C9 (state part): the stages of a cycle occur in the order read, predict,
\* display, publish, log, sleep, each at most once; display, publish and log only
\* follow a successful read and predict; a cycle is at its start only after the
\* sleep of the one before; after a KeyboardInterrupt in the loop the loop is left
\* and the program ends only with the log file closed.
CycleInOrder ==
    /\ \A i \in 1..Len(stages), j \in 1..Len(stages) :
          i < j => StageOrder(stages[i]) < StageOrder(stages[j])
    /\ \A i \in 1..Len(stages) :
          StageOrder(stages[i]) \in {3, 4, 5} =>
              /\ i > 2
              /\ stages[1] = "read"
              /\ stages[2] \in {"predict", "predict_fallback", "recommendation_failed"}
    /\ (apc = "read" /\ cycle > 0) => Last(stages) = "sleep"
    /\ (apc \in LoopPositions \ {"read"}) => (stages # <<>> /\ Last(stages) # "sleep")
    /\ (interrupted /\ cycle > 0) => apc \notin LoopPositions
    /\ (apc \in {"close", "exited"} /\ cycle > 0) => log_f = "closed"
    /\ exit_code = "returned" => (interrupted /\ log_f = "closed")

\* C9 (step part): a cycle starts only at the head of the loop, one at a time, and
\* every stage belongs to the running cycle; the first cycle excepted, a cycle
\* starts right after the sleep of the cycle before.
CycleSteps ==
    /\ cycle' # cycle =>
          /\ cycle' = cycle + 1
          /\ apc = "read"
          /\ cycle > 0 => Last(stages) = "sleep"
          /\ Len(stages') = 1
    /\ (cycle' = cycle /\ stages' # stages) =>
          /\ Len(stages') = Len(stages) + 1
          /\ SubSeq(stages', 1, Len(stages)) = stages

\* C9: the monitor loop is a sequential state machine: read, predict, emit
\* (display, publish, log), one sleep, next cycle; cycles never overlap; a
\* KeyboardInterrupt ends the loop and the log file is closed.
C9_SequentialCycle == []CycleInOrder /\ [][CycleSteps]_vars

\* a full cycle was followed by its sleep and a second cycle; then the loop was
\* interrupted and the program ended with the log closed
C9_Witness ==
    /\ cycle = 2
    /\ Len(log_rows) = 2
    /\ stages = <<"read", "predict", "display", "publish", "log", "sleep">>
    /\ interrupted
    /\ exit_code = "returned"
    /\ log_f = "closed"

\* C10: when loading the JSON data, the scaler or the model fails in __init__, the
\* constructor raises, the process exits with sys.exit(1), and the loop was never
\* entered: no cycle, no log file, nothing displayed, published or logged; the
\* loop is only ever reached with data, scaler and model loaded.
C10_InitFailureFatal ==
    /\ init_error # "none" =>
          /\ apc = "exited"
          /\ exit_code = "sys.exit(1)"
          /\ cycle = 0
          /\ log_f = "unopened"
          /\ log_rows = <<>>
          /\ displayed = {}
          /\ published = {}
          /\ stages = <<>>
    /\ (model # "loaded" \/ scaler # "loaded") =>
          /\ apc \in {"main", "init_json", "init_artifacts", "exited"}
          /\ cycle = 0
          /\ log_f = "unopened"

\* the scaler was loaded, the model was not, and the process has exited
C10_Witness ==
    /\ init_error = "artifacts"
    /\ scaler = "loaded"
    /\ model = "unset"
    /\ apc = "exited"

\* the sink failures after which __init__ and the loop go on
SoftSinkFailures ==
    {"mqtt_connect", "mqtt_init", "mdns_start", "mdns_start_raises", "mdns_init",
     "publish", "log_write"}

C12_LengthReconciled ==
    (call.fn = "predict" /\ ~ret.raised) =>
        LET b == Binarize(Normalize(call.raw_pred))
        IN  /\ Len(label_names) = 24
            /\ Len(ret.all_predictions) = Len(label_names)
            /\ \A i \in 1..Len(label_names) :
                   ret.all_predictions[i] = IF i <= Len(b) THEN b[i] ELSE 0

\* a vector shorter by 2 came back padded, its last entry still in place
C12_Witness ==
    /\ call.fn = "predict"
    /\ call.raw_pred = RawVec1D(ValuesShortBy2)
    /\ ~ret.raised
    /\ ret.all_predictions[1] = 1
    /\ ret.all_predictions[22] = 1
    /\ ret.all_predictions[23] = 0
    /\ ret.all_predictions[24] = 0

\* C13: for a numeric model output, every entry of all_predictions is 0 or 1,
\* also when no value of the output lies in [0.0, 1.0] and the values are cast
\* to integers as they are.
C13_EntriesAreBinary ==
    (call.fn = "predict" /\ ~ret.raised /\ call.raw_pred.numeric) =>
        \A i \in 1..Len(ret.all_predictions) : ret.all_predictions[i] \in {0, 1}

\* the first n entries of a sequence, or all of it when it is shorter
Prefix(seq, n) == SubSeq(seq, 1, IF Len(seq) < n THEN Len(seq) ELSE n)

\* C14: when some value of the flattened model output lies in [0.0, 1.0], each
\* entry of the binary vector is 1 where the value is at least 0.5 and 0
\* elsewhere; so [0.2, 0.8, 0.5] gives [0,1,1], [2,0,1] gives [1,0,1], and an
\* output made of 0s and 1s only comes back as it was.
C14_ThresholdRule ==
    (call.fn = "predict" /\ ~ret.raised /\ call.raw_pred.numeric) =>
        LET flat == Normalize(call.raw_pred).values
            n == IF Len(flat) < Len(label_names) THEN Len(flat) ELSE Len(label_names)
        IN  /\ (\E i \in 1..Len(flat) : flat[i] >= 0 /\ flat[i] <= 10) =>
                   \A i \in 1..n :
                       ret.all_predictions[i] = IF flat[i] >= 5 THEN 1 ELSE 0
            /\ flat = <<2, 8, 5>> => Prefix(ret.all_predictions, 3) = <<0, 1, 1>>
            /\ flat = <<20, 0, 10>> => Prefix(ret.all_predictions, 3) = <<1, 0, 1>>
            /\ (\A i \in 1..Len(flat) : flat[i] \in {0, 10}) =>
                   \A i \in 1..n : ret.all_predictions[i] * 10 = flat[i]

\* [0.2, 0.8, 0.5] was binarized, the value at the threshold giving 1
C14_Witness ==
    /\ call.fn = "predict"
    /\ call.raw_pred = RawVec1D(<<2, 8, 5>>)
    /\ ~ret.raised
    /\ Prefix(ret.all_predictions, 3) = <<0, 1, 1>>

\* C15: active_labels lists exactly the labels whose all_predictions entry is 1,
\* each once, in the order of the taxonomy (the k-th active label is the label
\* of the k-th entry equal to 1), and num_active is the length of that list.
C15_ActiveLabelsMatchVector ==
    (call.fn = "predict" /\ ~ret.raised) =>
        LET ones == {i \in 1..Len(ret.all_predictions) : ret.all_predictions[i] = 1}
        IN  /\ Len(ret.active_labels) = Cardinality(ones)
            /\ ret.num_active = Len(ret.active_labels)
            /\ \A k \in 1..Len(ret.active_labels) :
                   \E i \in ones :
                       /\ ret.active_labels[k] = label_names[i]
                       /\ Cardinality({j \in ones : j < i}) = k - 1
            /\ \A k, l \in 1..Len(ret.active_labels) :
                   k # l => ret.active_labels[k] # ret.active_labels[l]

\* three entries were 1 and their three labels came back in taxonomy order
C15_Witness ==
    /\ call.fn = "predict"
    /\ call.raw_pred = RawVec1D(OutWarningWalking.values)
    /\ ~ret.raised
    /\ ret.num_active = 3
    /\ ret.active_labels = <<label_names[6], label_names[14], label_names[17]>>

\* C16: the constructor tries every selected script whatever happened to the
\* ones before it (a missing script or a launch that raises is skipped); every
\* launched source, and no other, gets a reader thread; the constructor raises
\* exactly when no source was launched, and then no reader thread and no
\* updater thread has been started.
C16_StartupTolerance ==
    LET pastLaunch == mpc # "start_subprocesses"
    IN  /\ pastLaunch => \A s \in Sensors : procs[s] # "selected"
        /\ (mpc = "init_raised") <=> (pastLaunch /\ Launched = {})
        /\ mpc = "init_raised" =>
               /\ \A s \in Sensors : rpc[s] = "unstarted"
               /\ upc = "unstarted"
        /\ \A s \in Sensors : rpc[s] # "unstarted" => s \in Launched
        /\ upc # "unstarted" => \A s \in Launched : rpc[s] = "read"
        /\ mpc = "loop" =>
               /\ Launched # {}
               /\ \A s \in Sensors : (rpc[s] = "read") <=> (s \in Launched)
               /\ upc = "check"

\* the first script was missing, the launch of the second raised, and the
\* constructor returned with the other two running, each with its reader
C16_Witness ==
    /\ mpc = "loop"
    /\ procs["max30102"] = "missing"
    /\ procs["ds18b20"] = "popen_raises"
    /\ procs["bme280"] = "running" /\ rpc["bme280"] = "read"
    /\ procs["mpu6050"] = "running" /\ rpc["mpu6050"] = "read"
    /\ rpc["max30102"] = "unstarted" /\ rpc["ds18b20"] = "unstarted"
    /\ upc = "check"

C19_ParseLineTotalStateless ==
    /\ [](call.fn = "parse_line" =>
            /\ \A k \in 1..Len(ret) :
                  /\ Len(ret[k]) = 2
                  /\ ret[k][1] \in FeatureSet
                  /\ ret[k][2] # <<>>
            /\ call.line \in NoRuleLines(call.sensor) => ret = <<>>
            /\ data_queue = <<>>
            /\ sensor_buffer = [f \in FeatureSet |-> None])
    /\ [][call'.fn = "parse_line" => UNCHANGED smVars]_vars

\* the error text of the ds18b20 script was parsed for ds18b20 and gave nothing
C19_Witness ==
    /\ call.fn = "parse_line"
    /\ call.sensor = "ds18b20"
    /\ call.line = LineDsErr
    /\ ret = <<>>

\* C20: each script's lines give their metrics when parsed for that script:
\* a bare number gives body_temp for ds18b20 and nothing for another sensor;
\* the Temperature, Pressure and Humidity lines of bme280 give ambient_temp,
\* pressure_hpa and humidity_pct; the Accel and Gyro lines of mpu6050 give
\* three pairs each; the JSON record of max30102 gives heart_rate_bpm and
\* spo2_pct.
C20_EachFormatParsed ==
    call.fn = "parse_line" =>
        /\ call.line = LineDsTempA =>
               ret = IF call.sensor = "ds18b20"
                     THEN << <<"body_temp", <<"3", "6", ".", "6">>>> >> ELSE <<>>
        /\ call.line = LineDsTempB =>
               ret = IF call.sensor = "ds18b20"
                     THEN << <<"body_temp", <<"-", "1", "2", "7", ".", "0">>>> >> ELSE <<>>
        /\ (call.sensor = "bme280" /\ call.line = LineBmeTemp) =>
               ret = << <<"ambient_temp", <<"2", "5", ".", "0", "0">>>> >>
        /\ (call.sensor = "bme280" /\ call.line = LineBmePress) =>
               ret = << <<"pressure_hpa", <<"1", "0", "1", "3", ".", "2", "5">>>> >>
        /\ (call.sensor = "bme280" /\ call.line = LineBmeHum) =>
               ret = << <<"humidity_pct", <<"4", "5", ".", "5", "0">>>> >>
        /\ (call.sensor = "mpu6050" /\ call.line = LineMpuAccel) =>
               ret = << <<"accel_x", <<"0", ".", "1", "2">>>>,
                        <<"accel_y", <<"-", "0", ".", "5", "0">>>>,
                        <<"accel_z", <<"0", ".", "9", "8">>>> >>
        /\ (call.sensor = "mpu6050" /\ call.line = LineMpuGyro) =>
               ret = << <<"gyro_x", <<"1", "5", ".", "0", "0">>>>,
                        <<"gyro_y", <<"-", "1", "0", ".", "2", "5">>>>,
                        <<"gyro_z", <<"5", ".", "0", "0">>>> >>
        /\ (call.sensor = "max30102" /\ call.line = LineMaxOk) =>
               ret = << <<"heart_rate_bpm", <<"7", "2", ".", "5">>>>,
                        <<"spo2_pct", <<"9", "8", ".", "1">>>> >>

(***************************************************************************)
(* recommendation_engine.py: RecommendationEngine                          *)
(***************************************************************************)
\* the four description tables in the order activity, conditions, environment, status
ClassTables ==
    <<ACTIVITY_DESCRIPTIONS, HEALTH_CONDITION_DESCRIPTIONS,
      ENVIRONMENTAL_DESCRIPTIONS, HEALTH_STATUS_DESCRIPTIONS>>

\* the four lists of a result of interpret(), in the same order
ClassLists(r) == <<r.activity, r.conditions, r.environment, r.status>>

\* C21: _classify_labels partitions its input. Each of the four lists is the
\* input restricted to the labels of that list, in input order; no label is in
\* two lists; the lists together hold exactly the input's labels; a label of a
\* list is in that list's table, or is in no table and in conditions; and the
\* 24 labels of the taxonomy are each in exactly one table.
C21_ClassifyPartitions ==
    /\ \A i, j \in 1..4 : i # j => ClassTables[i] \cap ClassTables[j] = {}
    /\ SeqRange(label_names) = UNION {ClassTables[i] : i \in 1..4}
    /\ Cardinality(SeqRange(label_names)) = 24
    /\ call.fn = "interpret" =>
          LET lists == ClassLists(ret)
              R(i) == SeqRange(lists[i])
          IN  /\ \A i \in 1..4 : lists[i] = SelectSeq2(call.labels, R(i))
              /\ \A i, j \in 1..4 : i # j => R(i) \cap R(j) = {}
              /\ UNION {R(i) : i \in 1..4} = SeqRange(call.labels)
              /\ \A i \in 1..4 : \A l \in R(i) :
                    \/ l \in ClassTables[i]
                    \/ i = 2 /\ l \notin UNION {ClassTables[k] : k \in 1..4}

\* a list with labels of all four classes has been classified
C21_Witness ==
    /\ call.fn = "interpret"
    /\ call.labels = <<"Warning", "Stressed", "Fatigued", "Hot environment", "Running">>
    /\ ret.conditions = <<"Stressed", "Fatigued">>
    /\ ret.activity = <<"Running">>
    /\ ret.environment = <<"Hot environment">>
    /\ ret.status = <<"Warning">>

\* C22: _select_top_label returns None for the empty list; otherwise it returns
\* the label at the first position whose priority value (0 for a label that is
\* not in LABEL_PRIORITY) is the highest of the list. For Critical, Stressed and
\* Walking, of priorities 100, 65 and 30, that label is Critical.
C22_TopLabelIsFirstMax ==
    /\ LABEL_PRIORITY("Critical") = 100
    /\ LABEL_PRIORITY("Stressed") = 65
    /\ LABEL_PRIORITY("Walking") = 30
    /\ LABEL_PRIORITY("Unknown label") = 0
    /\ call.fn = "interpret" =>
          /\ call.labels = <<>> => ret.main_label = "None"
          /\ call.labels # <<>> =>
                \E i \in 1..Len(call.labels) :
                    /\ ret.main_label = call.labels[i]
                    /\ \A j \in 1..Len(call.labels) :
                          LABEL_PRIORITY(call.labels[j]) <= LABEL_PRIORITY(call.labels[i])
                    /\ \A j \in 1..(i-1) :
                          LABEL_PRIORITY(call.labels[j]) < LABEL_PRIORITY(call.labels[i])
          /\ SeqRange(call.labels) = {"Critical", "Stressed", "Walking"}
                => ret.main_label = "Critical"

\* two labels of the same priority have met and the first one was chosen
C22_Witness ==
    /\ call.fn = "interpret"
    /\ call.labels = <<"Sleeping", "Humid environment">>
    /\ LABEL_PRIORITY("Sleeping") = LABEL_PRIORITY("Humid environment")
    /\ ret.main_label = "Sleeping"

\* two results of interpret() that differ at most in the introductory phrase
SameButIntro(r1, r2) ==
    /\ ClassLists(r1) = ClassLists(r2)
    /\ r1.main_label = r2.main_label
    /\ r1.priority = r2.priority
    /\ r1.recommendation = r2.recommendation
    /\ r1.rec_actions = r2.rec_actions
    /\ r1.summary.text = r2.summary.text
    /\ r1.full_message.summary.text = r2.full_message.summary.text
    /\ r1.full_message.means = r2.full_message.means
    /\ r1.full_message.sensor_block = r2.full_message.sensor_block
    /\ r1.full_message.next_step = r2.full_message.next_step

C24_PriorityCascade ==
    (call.fn = "interpret" /\ SeqRange(call.labels) \subseteq SeqRange(label_names)) =>
        LET active == SeqRange(call.labels)
        IN  /\ ret.priority \in {"critical", "warning", "caution", "normal"}
            /\ ret.priority = "critical" <=> "Critical" \in active
            /\ ret.priority = "warning" <=>
                  /\ "Critical" \notin active
                  /\ active \cap {"Low oxygen state", "Possible fever", "Warning"} # {}
            /\ ret.priority = "caution" <=>
                  /\ "Critical" \notin active
                  /\ active \cap {"Low oxygen state", "Possible fever", "Warning"} = {}
                  /\ ret.conditions # <<>>

\* Critical is active next to an urgent label and after it in the list
C24_Witness ==
    /\ call.fn = "interpret"
    /\ call.labels = <<"Possible fever", "Critical">>
    /\ ret.priority = "critical"

\* C25: the priority level agrees with the partition of the classifier: whenever
\* the conditions list of _classify_labels is not empty, also when it holds only
\* labels found in no table, the priority level is caution, warning or critical.
C25_PriorityAgreesWithPartition ==
    (call.fn = "interpret" /\ ret.conditions # <<>>) =>
        ret.priority \in {"caution", "warning", "critical"}

\* the same for lists of taxonomy labels only
C25_PriorityAgreesOnTaxonomy ==
    (call.fn = "interpret" /\ ret.conditions # <<>>
        /\ SeqRange(call.labels) \subseteq SeqRange(label_names)) =>
        ret.priority \in {"caution", "warning", "critical"}

\* the summary text "everything looks normal."
NormalSummaryText == << [part |-> "everything looks normal.", text |-> <<>>] >>

\* C26: with an empty list of active labels interpret() returns priority normal,
\* the summary "<intro> everything looks normal." and the generic fallback text as
\* the recommendation; and the summary is "<intro> everything looks normal." only
\* when the classifier found no condition, no activity, no environment label and
\* no status label other than Normal and Healthy.
C26_NormalOnlyWhenNothingActive ==
    call.fn = "interpret" =>
        /\ call.labels = <<>> =>
              /\ ret.priority = "normal"
              /\ ret.summary.intro \in INTRO_PHRASES
              /\ ret.summary.text = NormalSummaryText
              /\ ret.recommendation = <<FallbackAction>>
        /\ ret.summary.text = NormalSummaryText =>
              /\ ret.conditions = <<>>
              /\ ret.activity = <<>>
              /\ ret.environment = <<>>
              /\ SeqRange(ret.status) \subseteq {"Normal", "Healthy"}

\* the same for lists of taxonomy labels only
C26_NormalOnTaxonomy ==
    (call.fn = "interpret" /\ SeqRange(call.labels) \subseteq SeqRange(label_names))
        => C26_NormalOnlyWhenNothingActive

\* the place of a part of the summary in the order the claim gives
PartOrder(kind) ==
    CASE kind = "main" -> 1
      [] kind = "conditions" -> 2
      [] kind = "activity" -> 3
      [] kind = "environment" -> 4
      [] kind = "status" -> 5

\* C27: the summary of interpret() lists its parts in the order main label,
\* other conditions, activity, environment, non-normal status, each at most
\* once. The main part is there exactly when the main label is a condition, and
\* it is that condition's description at the intensity the intensity map gives
\* for it, at moderate intensity when the map has no entry or an entry that is
\* not mild, moderate or high. Each other part is there exactly when its class
\* has a label to describe.
C27_SummaryPartsInOrder ==
    call.fn = "interpret" =>
        LET kinds == [i \in 1..Len(ret.parts) |-> ret.parts[i].part]
            given == Get(call.intensity_map, ret.main_label)
            others == SeqRange(ret.conditions) \ {ret.main_label}
        IN  /\ \A i, j \in 1..Len(kinds) : i < j => PartOrder(kinds[i]) < PartOrder(kinds[j])
            /\ ret.parts # <<>> => ret.summary.text = ret.parts
            /\ "main" \in SeqRange(kinds) <=> ret.main_label \in HEALTH_CONDITION_DESCRIPTIONS
            /\ "main" \in SeqRange(kinds) =>
                  ret.parts[1].text =
                      << <<"condition", ret.main_label,
                           IF given \in {"mild", "moderate", "high"} THEN given
                           ELSE "moderate">> >>
            /\ "conditions" \in SeqRange(kinds) <=>
                  others \cap HEALTH_CONDITION_DESCRIPTIONS # {}
            /\ "activity" \in SeqRange(kinds) <=> ret.activity # <<>>
            /\ "environment" \in SeqRange(kinds) <=> ret.environment # <<>>
            /\ "status" \in SeqRange(kinds) <=>
                  ~(SeqRange(ret.status) \subseteq {"Normal", "Healthy"})

\* all five parts are in a summary whose main label has intensity high in the map
C27_Witness ==
    /\ call.fn = "interpret"
    /\ call.labels = <<"Warning", "Stressed", "Fatigued", "Hot environment", "Running">>
    /\ Len(ret.parts) = 5
    /\ ret.parts[1].text = << <<"condition", "Fatigued", "high">> >>
    /\ ret.parts[2].text = << <<"condition", "Stressed", "high">> >>
    /\ ret.parts[5].part = "status"

C29_OutputModes ==
    call.fn = "interpret" =>
        /\ call.mode = "short" =>
              /\ ret.recommendation = <<ret.rec_actions[1]>>
              /\ ret.full_message = [summary |-> ret.summary,
                                     means |-> <<ret.rec_actions[1]>>,
                                     sensor_block |-> <<>>, next_step |-> <<>>]
        /\ (call.mode = "short"
              /\ call.labels = <<"Low oxygen state", "Hot environment", "Walking">>) =>
              /\ ret.priority = "warning"
              /\ ret.recommendation = << <<"action", "Low oxygen state">> >>
        /\ call.mode = "detailed" =>
              /\ ret.recommendation = ret.rec_actions
              /\ ret.full_message.summary = ret.summary
              /\ ret.full_message.means = ret.rec_actions
              /\ ret.full_message.next_step = <<ret.rec_actions[1]>>

\* the first scenario of _demo in mode short: three actions apply, one is given
C29_Witness ==
    /\ call.fn = "interpret"
    /\ call.mode = "short"
    /\ call.labels = <<"Low oxygen state", "Hot environment", "Walking">>
    /\ ~call.intensity_map.none
    /\ Get(call.intensity_map, "Low oxygen state") = "moderate"
    /\ Len(ret.rec_actions) = 3
    /\ ret.recommendation = << <<"action", "Low oxygen state">> >>

\* the sensor mapping has the field and float() accepts its value
Numeric(sensors, k) ==
    /\ ~sensors.none
    /\ k \in DOMAIN sensors.items
    /\ FloatOf(sensors.items[k]) # ConvError

\* C30: interpret() returns a recommendation for every sensor mapping: none,
\* empty, fields missing, fields that are no numbers. In detailed mode the full
\* message has a line for body temperature, heart rate and SpO2 exactly when the
\* field is present and numeric, and the ambient line exactly when ambient
\* temperature and humidity both are; a line shows the float of its field; a
\* missing or malformed field is an omitted line. In short mode there is no line.
C30_SensorLinesOnlyNumeric ==
    call.fn = "interpret" =>
        LET block == ret.full_message.sensor_block
            Line(name) == {i \in 1..Len(block) : block[i][1] = name}
            Field(k) == <<"number", FloatOf(call.sensors.items[k]),
                          IF k = "heart_rate_bpm" THEN 0 ELSE 1>>
            Shown(name, k) ==
                /\ Line(name) # {} <=> Numeric(call.sensors, k)
                /\ \A i \in Line(name) : block[i] = <<name, Field(k)>>
        IN  /\ ret.recommendation # <<>>
            /\ ret.priority \in {"critical", "warning", "caution", "normal"}
            /\ call.mode = "short" => block = <<>>
            /\ call.mode = "detailed" =>
                  /\ Shown("Body temp:", "body_temp")
                  /\ Shown("Heart rate:", "heart_rate_bpm")
                  /\ Shown("SpO2:", "spo2_pct")
                  /\ Line("Ambient:") # {} <=>
                        /\ Numeric(call.sensors, "ambient_temp")
                        /\ Numeric(call.sensors, "humidity_pct")
                  /\ \A i \in Line("Ambient:") :
                        block[i] = <<"Ambient:", Field("ambient_temp"), Field("humidity_pct")>>
                  /\ \A i \in 1..Len(block) :
                        block[i][1] \in {"Body temp:", "Heart rate:", "SpO2:", "Ambient:"}
                  /\ Len(block) <= 4

\* a mapping whose heart rate is text and whose SpO2 is None: two lines are left
C30_Witness ==
    /\ call.fn = "interpret"
    /\ call.mode = "detailed"
    /\ ~call.sensors.none
    /\ DOMAIN call.sensors.items = SensorFields
    /\ ~Numeric(call.sensors, "heart_rate_bpm")
    /\ call.sensors.items["spo2_pct"] = None
    /\ Len(ret.full_message.sensor_block) = 2
    /\ ret.full_message.sensor_block[1][1] = "Body temp:"
    /\ ret.full_message.sensor_block[2][1] = "Ambient:"
    /\ ret.recommendation # <<>>

(***************************************************************************)
(* main.py: the log of monitor_continuous                                  *)
(***************************************************************************)
\* what holds of the log file in every state
LogShape ==
    /\ log_header \in {0, 1}
    /\ (cycle > 0 \/ log_rows # <<>>) => log_header = 1
    /\ \A i \in 1..Len(log_rows) :
          /\ log_rows[i].timestamp \in 1..cycle
          /\ log_rows[i].timestamp \notin aborted
          /\ \A j \in 1..Len(log_rows) : i < j => log_rows[i].timestamp < log_rows[j].timestamp
          /\ Len(log_rows[i].features) = 12
          /\ \A k \in 1..12 :
                /\ log_rows[i].features[k][1] = feature_names[k]
                /\ HasAllKeys(log_rows[i].features[k][2])
    /\ (apc = "sleep" /\ cycle \notin aborted) =>
          Cardinality({k \in 1..Len(stages) : stages[k] \in {"log", "log_failed"}}) = 1
    /\ (apc = "sleep" /\ cycle \in aborted) =>
          /\ \A k \in 1..Len(stages) : stages[k] \notin {"log", "log_failed"}
          /\ RowsOf(cycle) = {}
    /\ (apc = "sleep" /\ Last(stages) = "log") =>
          /\ log_rows # <<>>
          /\ Last(log_rows) = [timestamp |-> cycle,
                               features |-> [k \in 1..12 |-> <<feature_names[k], m_sensor_data>>],
                               active_labels |-> result.active_labels,
                               recommendation |-> result.recommendation.summary,
                               priority |-> result.recommendation.priority]

\* what a step may do to the log file: nothing, or add one row at its end, and
\* that only in the logging step of a cycle whose prediction returned
LogGrows ==
    \/ log_rows' = log_rows /\ (log_header' = log_header \/ apc = "header")
    \/ /\ apc = "log"
       /\ ~result.raised
       /\ log_header' = log_header
       /\ Len(log_rows') = Len(log_rows) + 1
       /\ \A i \in 1..Len(log_rows) : log_rows'[i] = log_rows[i]
       /\ log_rows'[Len(log_rows')].timestamp = cycle

\* C31: the log is append-only with one record per cycle. The header is written
\* once, before the first cycle; a cycle whose prediction returned attempts
\* exactly one row (timestamp, the 12 feature values in feature order, the
\* active labels, the summary and the priority of the recommendation); a cycle
\* that failed in reading or predicting adds no row; and no step rewrites or
\* removes a row that is in the file.
C31_LogAppendOnly == []LogShape /\ [][LogGrows]_vars

\* the first cycle failed and left no row, the second one has added its row
C31_Witness ==
    /\ cycle = 2
    /\ aborted = {1}
    /\ log_header = 1
    /\ Len(log_rows) = 1
    /\ log_rows[1].timestamp = 2
    /\ apc = "sleep"

(***************************************************************************)
(* sensor_manager.py: snapshots                                            *)
(***************************************************************************)
\* what a step may do to the dicts: a call of read_all_sensors or
\* get_sensor_status leaves the buffer and every mapping returned before as they
\* are and returns a dict that is neither the buffer nor one returned before; a
\* change a caller makes to a mapping it was given leaves the buffer and every
\* mapping returned by another call as they are
SnapshotsAreCopies ==
    LET returned == {snaps[i] : i \in 1..Len(snaps)}
    IN  /\ Len(snaps') = Len(snaps) + 1 =>
              /\ snap_op'.op \in {"read_all_sensors", "get_sensor_status"}
              /\ heap'[1] = heap[1]
              /\ \A r \in returned : heap'[r] = heap[r]
              /\ snaps'[Len(snaps')] \notin returned \cup {1}
              /\ DOMAIN heap'[snaps'[Len(snaps')]] = FeatureSet
              /\ \A i \in 1..Len(snaps) : snaps'[i] = snaps[i]
        /\ (Len(snaps') = Len(snaps) /\ snap_op'.op = "caller") =>
              /\ heap'[1] = heap[1]
              /\ \A i, j \in 1..Len(snaps) :
                    (snaps[i] = snap_op'.ref /\ i # j) => heap'[snaps[j]] = heap[snaps[j]]
              /\ Len(heap') = Len(heap)

\* C32: snapshots are copies. read_all_sensors() and get_sensor_status() leave
\* the buffer unchanged, each call returns a new mapping, and a change made to a
\* returned mapping changes neither the buffer nor any other returned mapping.
C32_SnapshotsAreCopies == [][SnapshotsAreCopies]_vars

\* two mappings were returned for the same buffer, a caller has removed a key
\* from the first one; the second one and the buffer still have it
C32_Witness ==
    /\ Len(snaps) = 2
    /\ snap_op = [op |-> "caller", ref |-> snaps[1]]
    /\ "body_temp" \notin DOMAIN heap[snaps[1]]
    /\ "body_temp" \in DOMAIN heap[snaps[2]]
    /\ "body_temp" \in DOMAIN heap[1]
    /\ heap[1]["body_temp"] # None

(***************************************************************************)
(* sensor_manager.py: from the reader threads to the buffer                *)
(***************************************************************************)
\* the readings that are put on the queue in the run
DeliveredReadings ==
    FewReadings \cup
    {[sensor |-> "ds18b20", metric |-> p[1], value |-> p[2]] :
        p \in SeqRange(ParseLine("ds18b20", LineDsTempA))}

\* those of them the buffer takes: the metric is a feature, float() accepts the value
AppliedReadings ==
    {r \in DeliveredReadings : r.metric \in FeatureSet /\ FloatOf(r.value) # ConvError}

InQueue(r) == \E i \in 1..Len(data_queue) : data_queue[i] = r

\* what a step may do to the queue and to the buffer: a put adds at the end, a
\* get takes the oldest item and hands it to the updater, and the buffer changes
\* only in the metric of the reading the updater holds, to the float of its value
DeliveryStep ==
    /\ data_queue' # data_queue =>
          \/ /\ Len(data_queue') = Len(data_queue) + 1
             /\ SubSeq(data_queue', 1, Len(data_queue)) = data_queue
             /\ sensor_buffer' = sensor_buffer
          \/ /\ data_queue # <<>>
             /\ data_queue' = Tail(data_queue)
             /\ sensor_buffer' = sensor_buffer
             /\ Head(data_queue).metric \in FeatureSet => udata' = Head(data_queue)
             /\ Head(data_queue).metric \notin FeatureSet => upc' = "check"
    /\ sensor_buffer' # sensor_buffer =>
          /\ udata.metric \in FeatureSet
          /\ FloatOf(udata.value) # ConvError
          /\ sensor_buffer' = [sensor_buffer EXCEPT ![udata.metric] = FloatOf(udata.value)]

\* C33: while the stop signal is not set, a queue that holds readings is
\* emptied by the updater, every reading on it whose metric is a feature comes
\* into the updater's hands, and a reading in its hands that float() accepts is
\* written to the buffer; readings are taken in the order they were put, so of
\* two readings of one metric from one source that follow each other on the
\* queue the later one is the value the buffer has after both; a reading whose
\* metric is no feature changes nothing.
C33_ReadingsDelivered ==
    /\ [][DeliveryStep]_vars
    /\ (data_queue # <<>>) ~> (stop_event \/ data_queue = <<>>)
    /\ \A r \in DeliveredReadings :
          (InQueue(r) /\ r.metric \in FeatureSet) ~> (stop_event \/ udata = r)
    /\ \A r \in AppliedReadings :
          (udata = r) ~> (sensor_buffer[r.metric] = FloatOf(r.value))
    /\ \A r1, r2 \in AppliedReadings :
          (/\ r1.metric = r2.metric /\ r1.sensor = r2.sensor
           /\ Len(data_queue) >= 2 /\ data_queue[1] = r1 /\ data_queue[2] = r2)
            ~> (stop_event \/ sensor_buffer[r2.metric] = FloatOf(r2.value))

\* two readings were put and applied, the buffer holds the value of the later
\* one, the stop signal is not set
C33_Witness ==
    /\ ~stop_event
    /\ enqueued = 2
    /\ data_queue = <<>>
    /\ upc = "check"
    /\ lastNumeric["body_temp"] = FloatOf(<<"-", "9", "0", "0", "0", "0", ".", "2", "5">>)
    /\ sensor_buffer["body_temp"] = FloatOf(<<"-", "9", "0", "0", "0", "0", ".", "2", "5">>)

----------------------------------------------------------------------------
\* C34: a failure inside the composition of the recommendation is recovered:
\* in a cycle whose interpret() raised, predict() still returned a result for the
\* readings of the cycle, with the binary vector of full length and the active
\* labels that vector names, and with the empty recommendation (summary "",
\* recommendation text "", priority normal); the cycle is not skipped: it goes on
\* to the display unless a KeyboardInterrupt ends the loop, and the row it logs
\* holds the active labels, the empty summary and priority normal.
C34_RecommendationFailureRecovered ==
    "recommendation_failed" \in SeqRange(stages) =>
        /\ cycle \notin aborted
        /\ result # NoResult
        /\ ~result.raised
        /\ result.sensor_data = m_sensor_data
        /\ result.all_predictions \in {Reconcile(Binarize(out)) : out \in ModelOutputs}
        /\ Len(result.all_predictions) = Len(label_names)
        /\ result.active_labels = ActiveFrom(result.all_predictions, 1)
        /\ result.num_active = Len(result.active_labels)
        /\ result.recommendation.summary = <<>>
        /\ result.recommendation.recommendation = <<>>
        /\ result.recommendation.priority = "normal"
        /\ (Last(stages) = "recommendation_failed" /\ ~interrupted) => apc = "display"
        /\ apc \in {"publish", "log", "sleep"} => cycle \in displayed
        /\ "log" \in SeqRange(stages) =>
              /\ Last(log_rows).timestamp = cycle
              /\ Last(log_rows).active_labels = result.active_labels
              /\ Last(log_rows).recommendation = <<>>
              /\ Last(log_rows).priority = "normal"

\* a cycle whose interpret() raised with Critical active has logged its row
C34_Witness ==
    /\ "recommendation_failed" \in SeqRange(stages)
    /\ "log" \in SeqRange(stages)
    /\ "Critical" \in SeqRange(result.active_labels)
    /\ Last(log_rows).timestamp = cycle
    /\ Last(log_rows).priority = "normal"

----------------------------------------------------------------------------
\* a step in which publish_health_update is called
UpdateCalled ==
    /\ ppc = "idle"
    /\ <<ppc, pub_result, attempts, pub_ret>>' # <<ppc, pub_result, attempts, pub_ret>>

\* a call made while the flag is false, or with a result that lacks one of the
\* five required keys, returns False at once with no _publish call
RefusedWhenUnavailable ==
    UpdateCalled =>
        IF \/ ~connected
           \/ \E key \in {"timestamp", "sensor_data", "active_labels", "num_active",
                          "recommendation"} : key \notin pub_result'.keys
        THEN /\ pub_ret' = "False"
             /\ attempts' = <<>>
             /\ ppc' = "idle"
        ELSE /\ pub_ret' = "running"
             /\ ppc' = "recommendation"

\* the flag rises only in a connect callback with rc = 0 and falls only in a
\* disconnect callback
FlagFollowsCallbacks ==
    /\ (~connected /\ connected') =>
          (last_callback'.kind = "connect" /\ last_callback'.rc = 0)
    /\ (connected /\ ~connected') => last_callback'.kind = "disconnect"

\* C35: the publish sink tolerates being unavailable.  Whenever the connected flag
\* is false (before the first successful connect callback, and from a disconnect
\* callback until the next connect callback with rc = 0) or the result lacks a
\* required key, publish_health_update() calls _publish for no topic, returns
\* False and does not raise; the flag is true only between a connect callback with
\* rc = 0 and the next disconnect callback; a disconnect callback with rc != 0
\* calls client.reconnect(), one with rc = 0 does not.
C35_SinkToleratesUnavailable ==
    /\ [](/\ pub_ret \in {"none", "False", "running", "True"}
          /\ pub_ret = "False" => (attempts = <<>> /\ ppc = "idle")
          /\ last_callback.kind \in {"none", "disconnect"} => ~connected
          /\ last_callback.kind = "disconnect" =>
                (last_callback.rc # 0 <=> last_callback.reconnect \in {"called", "raised"}))
    /\ [][RefusedWhenUnavailable /\ FlagFollowsCallbacks]_vars

\* after an unexpected disconnect, with the reconnect attempt made, an update with
\* a whole result was refused
C35_Witness ==
    /\ ~connected
    /\ last_callback = [kind |-> "disconnect", rc |-> 7, reconnect |-> "called"]
    /\ pub_ret = "False"
    /\ pub_result.keys = ResultKeys
    /\ pub_result.recommendation.priority = "critical"
    /\ attempts = <<>>

----------------------------------------------------------------------------
\* the topics an update is to reach, in order, for the priority of its
\* recommendation
TopicsDue(priority) ==
    <<"health/recommendation", "health/sensors", "health/status">>
        \o (IF priority \in {"critical", "warning"} THEN <<"health/alerts">> ELSE <<>>)

\* how many _publish calls are behind an update at each of its positions
CallsBehind ==
    CASE ppc = "recommendation" -> 0
      [] ppc = "sensor_data" -> 1
      [] ppc = "health_status" -> 2
      [] ppc = "alerts" -> 3
      [] OTHER -> Len(TopicsDue(pub_result.recommendation.priority))

\* the _publish calls of an update are only ever added at the end, one at a time
PublishedInSequence ==
    \/ attempts' = attempts
    \/ attempts' = <<>> /\ ppc = "idle"
    \/ \E a \in {attempts'[Len(attempts')]} : Len(attempts') > 0 /\ attempts' = Append(attempts, a)

\* C36: for every health update accepted while connected, _publish is called for
\* the recommendation, then the sensor data, then the health status, and then for
\* the alerts topic if and only if the priority of the recommendation is critical
\* or warning; every one of these calls is made whatever the calls before it
\* returned, and the update returns True.  The status message carries the
\* priority, the alert the priority as level and the active labels.
C36_UpdateTopicsInOrder ==
    /\ [](pub_ret \in {"running", "True"} =>
            LET due == TopicsDue(pub_result.recommendation.priority)
            IN  /\ Len(attempts) = CallsBehind
                /\ \A i \in 1..Len(attempts) : attempts[i].topic = due[i]
                /\ (pub_ret = "True") <=> (ppc = "idle")
                /\ Len(attempts) >= 3 =>
                      attempts[3].message.priority = pub_result.recommendation.priority
                /\ Len(attempts) = 4 =>
                      /\ attempts[4].message.level = pub_result.recommendation.priority
                      /\ attempts[4].message.labels = pub_result.active_labels)
    /\ [][PublishedInSequence]_vars

\* an update with priority warning is through: the recommendation and the status
\* were not published, the sensor data and the alert were
C36_Witness ==
    /\ pub_ret = "True"
    /\ pub_result.recommendation.priority = "warning"
    /\ Len(attempts) = 4
    /\ ~attempts[1].returned
    /\ attempts[2].returned
    /\ ~attempts[3].returned
    /\ attempts[4].topic = "health/alerts"
    /\ attempts[4].returned

----------------------------------------------------------------------------
\* C37: read_sensors() cycles through the loaded records.  json_index always stays
\* within 0..N; with N >= 1 records the k-th call (the one of cycle k) reads record
\* (k-1) mod N and leaves json_index one behind it: the cycle works with that
\* record's readings exactly when the record has readings with every feature key,
\* and is skipped otherwise, the index having advanced all the same.
C37_ReadSensorsCycles ==
    /\ json_index \in 0..Len(json_data)
    /\ (Len(json_data) >= 1 /\ cycle >= 1 /\ stages # <<>>) =>
          LET k0 == (cycle - 1) % Len(json_data)
              record == json_data[k0 + 1]
          IN  /\ json_index = k0 + 1
              /\ stages[1] \in {"read", "read_failed"}
              /\ stages[1] = "read" <=> (record.present /\ HasAllKeys(record))
              /\ stages[1] = "read" => m_sensor_data = record
              /\ stages[1] = "read_failed" => cycle \in aborted

\* the second call on a file of one record has wrapped and read that record again
C37_Witness ==
    /\ json_data = <<RecOk>>
    /\ cycle = 2
    /\ stages # <<>> /\ stages[1] = "read"
    /\ json_index = 1
    /\ m_sensor_data = RecOk

----------------------------------------------------------------------------
\* the signed 16-bit value of the unsigned 16-bit number u
TwosComplement(u) == IF u >= 2 ^ 15 THEN u - 2 ^ 16 ELSE u

\* C38: _convert_raw(high, low) and read_raw_data convert two bytes to a signed
\* 16-bit value: for every high and low in 0..255 the result is the two's
\* complement value of (high << 8) | low and lies in -32768..32767.
C38_SignedSixteenBit ==
    call.fn \in {"_convert_raw", "read_raw_data"} =>
        /\ ret = TwosComplement(call.high * 256 + call.low)
        /\ ret \in -32768..32767

\* the conversion agrees with the two's complement value for every pair of bytes
\* but high = 128, low = 0, where it returns 32768
C38_SignedButForOnePair ==
    call.fn \in {"_convert_raw", "read_raw_data"} =>
        IF call.high = 128 /\ call.low = 0
        THEN ret = 32768
        ELSE /\ ret = TwosComplement(call.high * 256 + call.low)
             /\ ret \in -32768..32767

----------------------------------------------------------------------------
\* what an iteration of a sensor loop does to the counter and to stdout
IterationRule ==
    (iterations' = iterations + 1) =>
        /\ last_iteration'.read = "values" =>
              /\ consecutive_errors' = 0
              /\ last_iteration'.printed # <<>>
              /\ Len(last_iteration'.printed) = (IF script = "bme280" THEN 3 ELSE 1)
              /\ stdout_lines' = stdout_lines + Len(last_iteration'.printed)
              /\ last_iteration'.reinit = "none"
              /\ spc' = "loop"
        /\ last_iteration'.read = "None" =>
              /\ last_iteration'.printed = <<>>
              /\ stdout_lines' = stdout_lines
              /\ (last_iteration'.reinit # "none") <=> (consecutive_errors = 9)
              /\ last_iteration'.reinit = "none" =>
                    (consecutive_errors' = consecutive_errors + 1 /\ spc' = "loop")
              /\ last_iteration'.reinit = "found" =>
                    (consecutive_errors' = 0 /\ spc' = "loop")
              /\ last_iteration'.reinit = "not found" =>
                    (spc' = "exited" /\ script_exit' = "1")

\* C39: in the bme280 and ds18b20 loops the consecutive-error counter is set to 0
\* by every successful read and is below 10 at the start of every iteration; the
\* tenth consecutive failed read has the sensor initialized (found) again: the
\* process exits with code 1 if that fails and goes on with the counter at 0
\* otherwise; a successful read prints its value lines (three for the BME280, one
\* for the DS18B20), a failed read prints nothing on stdout.
C39_ErrorCounterAndOutput ==
    /\ [](spc = "loop" => consecutive_errors \in 0..9)
    /\ [][IterationRule]_vars

\* the tenth failed read in a row found the sensor again: the loop goes on with
\* the counter at 0 and nothing printed
C39_Witness ==
    /\ spc = "loop"
    /\ iterations = 10
    /\ stdout_lines = 0
    /\ last_iteration = [read |-> "None", printed |-> <<>>, reinit |-> "found"]
    /\ consecutive_errors = 0

----------------------------------------------------------------------------
\* the place of a priority level in normal < caution < warning < critical
PriorityRank(p) ==
    CASE p = "normal" -> 0
      [] p = "caution" -> 1
      [] p = "warning" -> 2
      [] p = "critical" -> 3

\* C40: the priority level is monotone in the active labels: a list with one more
\* label, put before or after the labels of the call, never gets a lower level
\* than interpret() returned, in the order normal < caution < warning < critical
\* (and so no list with more labels does); and whenever Critical is active the
\* main label is Critical and the first action is the action text of Critical.
C40_PriorityMonotone ==
    call.fn = "interpret" =>
        /\ \A l \in AllLabels :
              /\ PriorityRank(priority_level(Append(call.labels, l)))
                    >= PriorityRank(ret.priority)
              /\ PriorityRank(priority_level(<<l>> \o call.labels))
                    >= PriorityRank(ret.priority)
        /\ "Critical" \in SeqRange(call.labels) =>
              /\ ret.priority = "critical"
              /\ ret.main_label = "Critical"
              /\ ret.rec_actions[1] = <<"action", "Critical">>
              /\ ret.recommendation[1] = <<"action", "Critical">>

\* Critical was active after a label that alone gives warning
C40_Witness ==
    /\ call.fn = "interpret"
    /\ call.labels = <<"Low oxygen state", "Critical">>
    /\ ret.priority = "critical"
    /\ ret.main_label = "Critical"
    /\ ret.rec_actions[1] = <<"action", "Critical">>
    /\ Len(ret.rec_actions) = 2

====
